--------------------------------- MODULE Tui ---------------------------------
(***************************************************************************)
(* The plant and its operator: pymodbus_tui.py, which reads one table in   *)
(* every round, waits a moment for a key, and writes what the key makes of *)
(* the table it has, which may be an old one.  A round without a key, or   *)
(* with one that only moves the cursor or shows the help, goes on to the   *)
(* next table; where the cursor is when a key is pressed is left open.     *)
(***************************************************************************)
EXTENDS Plant

CONSTANTS
    Entries,        \* what may be typed in as a value
    Coils,          \* the coils that may be selected, of those that can be written
    Registers,      \* the registers that may be selected
    Settings,       \* what user_data may hold when the operator comes
    MaxKeys         \* bound: keys pressed that write

ASSUME TuiAssumption ==
    /\ Entries \subseteq Int /\ MaxKeys \in Nat /\ Settings \subseteq [Field -> Word]
    /\ Coils \subseteq Config \cup {PO + p : p \in Pin} /\ Registers \subseteq Register

VARIABLES
    tui,            \* "poll", "read", "key", "write" or "ended"
    readOp,         \* read_op
    known,          \* the tables that have been read
    coils, counters, user,      \* what they hold (of the analog table: any words)
    keys,
    unseen,         \* history: lines whose count has changed since counters were read
    moved           \* history: coils that were changed by others since coils were read

tables  == <<known, coils, counters, user, unseen, moved>>
tuiVars == <<tui, readOp, tables, keys>>
vars    == <<plantVars, tuiVars>>

READ_COILS     == 0
READ_COUNTERS  == 1
READ_ANALOG    == 2
READ_USER_DATA == 3

\* The operator comes to a plant that was reset, or that an earlier one left.
Init ==
    /\ PlantInit
    /\ userData \in Settings
    /\ tui = "poll" /\ keys = 0 /\ readOp = READ_COILS
    /\ known = {} /\ coils = {} /\ unseen = {} /\ moved = {}
    /\ counters = [l \in Line |-> 0] /\ user = [f \in Field |-> 0]

\* What the operator's program does by itself.  The slave sees nothing of it but
\* the request, at the beginning of a turn, so it is enough to do it there.
Alone == turn = "pduh" /\ UNCHANGED <<turn, pinVars, countVars, loopVars>>

\* The next round.
Ask ==
    /\ tui' = "read" /\ request' = [op |-> "read", addr |-> readOp, value |-> 0]
    /\ UNCHANGED <<readOp, tables>>

Poll == tui = "poll" /\ Ask /\ UNCHANGED keys /\ Alone

\* The table is read while the program waits for it, if it still does.
Read ==
    /\ ServeRead
    /\ IF tui = "read"
       THEN /\ tui' = "key" /\ readOp' = (readOp + 1) % 4 /\ known' = known \cup {readOp}
            /\ coils' = IF readOp = READ_COILS THEN CoilsOn ELSE coils
            /\ moved' = IF readOp = READ_COILS THEN {} ELSE moved
            /\ counters' = IF readOp = READ_COUNTERS THEN mirror ELSE counters
            /\ unseen' = IF readOp = READ_COUNTERS THEN {} ELSE unseen
            /\ user' = IF readOp = READ_USER_DATA THEN userData ELSE user
       ELSE UNCHANGED <<tui, readOp, tables>>
    /\ UNCHANGED keys

\* What anyone but a write to coils does to those of a table.
Moves ==
    moved' = IF READ_COILS \in known
             THEN moved \cup (CoilsOn \ CoilsOn') \cup (CoilsOn' \ CoilsOn)
             ELSE moved

Written ==
    /\ tui' = IF tui = "write" THEN "poll" ELSE tui
    /\ \/ ServeCoil /\ UNCHANGED moved
       \/ ServeRegister /\ Moves
    /\ UNCHANGED <<readOp, known, coils, counters, user, unseen, keys>>

\* Nothing is left of what it knew.
End ==
    /\ tui' = "ended" /\ readOp' = READ_COILS
    /\ known' = {} /\ coils' = {} /\ unseen' = {} /\ moved' = {}
    /\ counters' = [l \in Line |-> 0] /\ user' = [f \in Field |-> 0]

\* The answer does not come in time, the request being lost or not: the library
\* returns an exception, which has no values and no function code.
TimedOut ==
    /\ tui \in {"read", "write"} /\ End
    /\ request' \in {request, NoRequest}
    /\ UNCHANGED keys /\ Alone

-----------------------------------------------------------------------------
(* Keys.                                                                   *)

Press == tui = "key" /\ keys < MaxKeys /\ keys' = keys + 1 /\ Alone

Raise == End /\ UNCHANGED request

\* Mutant: the table is not read again at once.
WriteCoilsMutant(op, addr, v) ==
    /\ tui' = "write" /\ UNCHANGED readOp
    /\ request' = [op |-> op, addr |-> addr, value |-> v]
    /\ UNCHANGED tables

WriteCoils(op, addr, v) ==
    /\ tui' = "write" /\ readOp' = READ_COILS
    /\ request' = [op |-> op, addr |-> addr, value |-> v]
    /\ UNCHANGED tables

\* Mutant: the tables are read on in their order.
WriteRegistersMutant(addr, v) ==
    IF v \in Word
    THEN /\ tui' = "write" /\ UNCHANGED readOp
         /\ request' = [op |-> "register", addr |-> addr, value |-> v]
         /\ UNCHANGED tables
    ELSE Raise

\* The library raises on what is no word.
WriteRegisters(addr, v) ==
    IF v \in Word
    THEN /\ tui' = "write" /\ readOp' = READ_COUNTERS
         /\ request' = [op |-> "register", addr |-> addr, value |-> v]
         /\ UNCHANGED tables
    ELSE Raise

\* None, or one that moves the cursor, shows the help or redraws.
NoKey == tui = "key" /\ Ask /\ UNCHANGED keys /\ Alone

\* 1, 0 and t
CoilKey(addr) ==
    /\ Press
    /\ \/ \E v \in {0, 1} : WriteCoils("coil", addr, v)
       \/ WriteCoils("toggle", addr, IF addr \in coils THEN 0 ELSE 1)

\* s, l, r and R
CommandKey ==
    /\ Press
    /\ \/ \E addr \in {SaveCoil, LoadCoil, RunningCoil} : WriteCoils("coil", addr, 1)
       \/ WriteCoils("coil", RunningCoil, 0)

TableOf(addr) == IF addr < CounterBegin THEN READ_ANALOG
                 ELSE IF addr < UserBegin THEN READ_COUNTERS ELSE READ_USER_DATA

\* The values a register may be shown with; none in a table not yet read.
Shown(addr) ==
    LET lines  == {l \in Line : CounterAddress[l] = addr}
        fields == IF addr >= UserBegin THEN Located(addr - UserBegin) ELSE {}
    IN  IF TableOf(addr) \notin known THEN {}
        ELSE IF lines \cup fields = {} THEN Word
        ELSE {counters[l] : l \in lines} \cup {user[f] : f \in fields}

\* + and -
StepKey(addr) ==
    /\ Press
    /\ \/ Shown(addr) = {} /\ Raise
       \/ \E v \in Shown(addr), d \in {-1, 1} : WriteRegisters(addr, v + d)

\* Enter: what is typed in is written if it differs from what is shown.
EnterKey(addr) ==
    /\ Press
    /\ \/ Shown(addr) = {} /\ Raise
       \/ \E v \in Shown(addr), typed \in Entries :
              IF typed = v THEN Ask ELSE WriteRegisters(addr, typed)

QuitKey == Press /\ Raise

Key ==
    \/ NoKey \/ CommandKey \/ QuitKey
    \/ \E addr \in Coils : CoilKey(addr)
    \/ \E addr \in Registers : StepKey(addr) \/ EnterKey(addr)

-----------------------------------------------------------------------------

\* The parts of the main loop that serve no request.
Slave ==
    /\ \/ TakeReports /\ unseen' = unseen \cup {l \in Line : CounterPin(l) \in reported}
       \/ /\ \/ ServeNothing
             \/ \E fallen \in SUBSET Enabled : \E again \in SUBSET fallen : Counters(fallen, again)
             \/ \E time \in Times : Loop(time)
          /\ UNCHANGED unseen
    /\ Moves /\ UNCHANGED <<tui, readOp, known, coils, counters, user, keys>>

MainLoop == Slave \/ Read \/ Written

Next == MainLoop \/ Poll \/ TimedOut \/ Key

\* The main loop never ends; nobody has to press a key.
Spec == Init /\ [][Next]_vars /\ WF_vars(MainLoop)

-----------------------------------------------------------------------------

TypeOK ==
    /\ PlantTypeOK
    /\ tui \in {"poll", "read", "key", "write", "ended"} /\ readOp \in 0 .. 3
    /\ known \subseteq 0 .. 3 /\ coils \subseteq Coil /\ moved \subseteq Coil
    /\ counters \in [Line -> Word] /\ user \in [Field -> Word]
    /\ keys \in 0 .. MaxKeys /\ unseen \subseteq Line

\* The coils that others may change: the outputs loop() sets, pull-ups if they are
\* inputs; what is reported by the daemons of channels and counters; and the
\* pins of the timers, by a register.
Movable ==
    {kind + p : kind \in {PO, EIP}, p \in 0 .. 5 \cup {GrinderPin(l) : l \in Line}}
    \cup {IOM + p : p \in PortC} \cup {EC + p : p \in Pin}
    \cup {kind + TimerPin[a] : kind \in {IOD, EIP}, a \in {8, 9}}

\* The opposite of what the slave has.
TurnsOver == request.value = IF request.addr \in CoilsOn THEN 0 ELSE 1

\* A toggle is computed from a table that may be rounds old, and still asks for
\* the opposite of the coil as it is, after any writes, saves and loads of one's
\* own, but for a coil that others have changed since; and only those may be.
TogglesTruth ==
    /\ tui = "write" /\ request.op = "toggle" => TurnsOver \/ request.addr \in moved
    /\ moved \subseteq Movable

\* An increment or decrement of a counter is one of what the slave has, unless
\* a bag was counted since the table was read: writes of one's own are seen.
OwnWritesSeen ==
    tui = "key" /\ READ_COUNTERS \in known =>
        \A l \in Line \ unseen : counters[l] = mirror[l]

\* The oven of a line that is switched off, by the master or at its top, is
\* turned off.
SwitchedOff ==
    \A l \in Line : []<>(Pins(l) = {} \/ On(l) \/ ~running)
==============================================================================
