------------------------------ MODULE AdcDaemon ------------------------------
(***************************************************************************)
(* The ADC daemon: it reads the enabled channels one after the other and   *)
(* reports each reading to the PDU handler.  In a turn it takes at most    *)
(* one message and reports at most one reading.                            *)
(***************************************************************************)
EXTENDS SlaveQueues

VARIABLES
    channels,       \* the channels whose message in channels[] is enabled
    enabledCount,   \* uint8_t enabled_count
    active,         \* active_channel_i, also selected in ADMUX
    busy,           \* bit ADSC: a conversion is under way
    adcPc           \* where the daemon goes on in its turn

adcVars == <<channels, enabledCount, active, busy, adcPc>>

AdcTypeOK ==
    /\ channels \subseteq Channel /\ enabledCount \in Nat
    /\ active \in Channel /\ busy \in BOOLEAN
    /\ adcPc \in {"message", "read", "reply"}

AdcInit == channels = {} /\ enabledCount = 0 /\ active = 0 /\ busy = FALSE /\ adcPc = "message"

\* Mutant: the search starts at the first channel.
NextEnabledMutant(on, i) ==
    CHOOSE k \in on : \A j \in on : k <= j

\* next(), from channel i on until one is enabled; only asked for when one is.
NextEnabled(on, i) ==
    (i + CHOOSE k \in 1 .. Bits :
            /\ (i + k) % Bits \in on
            /\ \A j \in 1 .. k - 1 : (i + j) % Bits \notin on) % Bits

AdcTurn(label) == turn = "adc" /\ adcPc = label

\* Mutant: a channel that is enabled already is counted again.
EnableChannelMutant(c) ==
    /\ channels' = channels \cup {c}
    /\ enabledCount' = enabledCount + 1
    /\ IF enabledCount = 0
       THEN active' = NextEnabled(channels', active) /\ busy' = TRUE
       ELSE UNCHANGED <<active, busy>>

\* Enabling the first channel starts the ADC.
EnableChannel(c) ==
    /\ channels' = channels \cup {c}
    /\ enabledCount' = IF c \in channels THEN enabledCount ELSE enabledCount + 1
    /\ IF enabledCount = 0
       THEN active' = NextEnabled(channels', active) /\ busy' = TRUE
       ELSE UNCHANGED <<active, busy>>

\* Mutant: a channel that is not enabled is counted off.
DisableChannelMutant(c) ==
    /\ channels' = channels \ {c}
    /\ enabledCount' = enabledCount - 1
    /\ busy' = (busy /\ enabledCount' # 0)
    /\ UNCHANGED active

\* Disabling the last one stops it, whatever it was doing.
DisableChannel(c) ==
    /\ channels' = channels \ {c}
    /\ enabledCount' = IF c \in channels THEN enabledCount - 1 ELSE enabledCount
    /\ busy' = (busy /\ enabledCount' # 0)
    /\ UNCHANGED active

TakeAdcMessage ==
    /\ AdcTurn("message") /\ adcQ # <<>>
    /\ adcQ' = Tail(adcQ)
    /\ LET m == Head(adcQ)
       IN  IF m.enabled THEN EnableChannel(m.id) ELSE DisableChannel(m.id)
    /\ adcPc' = "read"
    /\ UNCHANGED <<turn, inQ, counterQ>>

NoAdcMessage ==
    /\ AdcTurn("message") /\ adcQ = <<>>
    /\ adcPc' = "read"
    /\ UNCHANGED <<turn, inQ, adcQ, counterQ, channels, enabledCount, active, busy>>

\* Nothing to read, or not yet: ptxx_yield.
NothingRead ==
    /\ AdcTurn("read") /\ (enabledCount = 0 \/ busy)
    /\ adcPc' = "message" /\ turn' = "counters"
    /\ UNCHANGED <<inQ, adcQ, counterQ, channels, enabledCount, active, busy>>

\* Mutant: it does not give way after a reading, and goes on with the next.
ReadChannelMutant ==
    /\ turn = "adc" /\ adcPc # "message"
    /\ adcPc = "read" => enabledCount > 0 /\ ~busy
    /\ IF active \in channels /\ Len(inQ) = PduQueueSize
       THEN adcPc' = "reply" /\ turn' = "counters" /\ UNCHANGED <<inQ, active>>
       ELSE /\ channels # {}
            /\ inQ' = IF active \in channels THEN Append(inQ, [tag |-> "adc", id |-> active])
                      ELSE inQ
            /\ active' = NextEnabled(channels, active)
            /\ adcPc' = "message" /\ UNCHANGED turn
    /\ UNCHANGED <<adcQ, counterQ, channels, enabledCount, busy>>

\* The conversion is over.  The reply is made if the channel is still enabled
\* and tried again in the next turn while the queue is full; then the search
\* for the next channel, which never ends if there is none.
ReadChannel ==
    /\ turn = "adc" /\ adcPc # "message"
    /\ adcPc = "read" => enabledCount > 0 /\ ~busy
    /\ turn' = "counters"
    /\ IF active \in channels /\ Len(inQ) = PduQueueSize
       THEN adcPc' = "reply" /\ UNCHANGED <<inQ, active, busy>>
       ELSE /\ channels # {}
            /\ inQ' = IF active \in channels THEN Append(inQ, [tag |-> "adc", id |-> active])
                      ELSE inQ
            /\ active' = NextEnabled(channels, active)
            /\ busy' = TRUE
            /\ adcPc' = "message"
    /\ UNCHANGED <<adcQ, counterQ, channels, enabledCount>>

AdcStep == TakeAdcMessage \/ NoAdcMessage \/ NothingRead \/ ReadChannel

\* The hardware clears ADSC.  The daemon looks only in its turn, so it is
\* enough to let this happen before the main loop comes to it.
ConversionEnds ==
    /\ turn = "tr" /\ busy
    /\ busy' = FALSE
    /\ UNCHANGED <<turn, inQ, adcQ, counterQ, channels, enabledCount, active, adcPc>>
=============================================================================
