---------------------------- MODULE PlantProofs ----------------------------
(***************************************************************************)
(* For every width of a word, every configuration in the EEPROM, every     *)
(* setting of the plant, every weight and whatever is typed: what the runs *)
(* of module MCPlant check of the plant and its operator, its liveness     *)
(* apart.                                                                  *)
(***************************************************************************)
EXTENDS Tui, FiniteSetTheorems, TLAPS

-----------------------------------------------------------------------------
(* The words of user_data and the pins of the lines.                       *)

LEMMA Fields ==
    ASSUME NEW l \in Line
    PROVE  /\ {Oven(l), Grinder(l), Switch(l), Top(l), Ref(l), Kg(l)} \subseteq Field
           /\ Located(SwitchAddress[l] - UserBegin) = {Switch(l)}
           /\ \A k \in Line : /\ Switch(k) = Switch(l) => k = l
                              /\ Switch(k) \notin {Oven(l), Grinder(l), Top(l)}
                              /\ Kg(k) \notin {Switch(l), Top(l), Oven(l), Grinder(l)}
<1>1. l \in 1 .. 2
  BY DEF Line
<1>2. \A k \in Line : k \in 1 .. 2
  BY DEF Line
<1>3. SwitchAddress[l] = 51 + l
  BY <1>1 DEF SwitchAddress
<1>4. SwitchAddress[l] - UserBegin = 17 + l
  BY <1>1, <1>3 DEF UserBegin
<1>5. ASSUME NEW i \in 14 .. 25 PROVE Located(i) = {i - 14}
  <2>1. Records[1] = 14 /\ Records[2] - 1 = 11
    BY DEF Records
  <2>2. Located(i) = IF i < Records[1] THEN {}
                     ELSE {i - Records[1]} \cap (0 .. Records[2] - 1)
    BY Zenon DEF Located
  <2>3. ~(i < 14) /\ i - 14 \in 0 .. 11
    OBVIOUS
  <2> QED
    BY <2>1, <2>2, <2>3
<1>6. Located(17 + l) = {Switch(l)}
  <2>1. 17 + l \in 14 .. 25 /\ (17 + l) - 14 = Switch(l)
    BY <1>1 DEF Switch
  <2> QED
    BY <1>5, <2>1
<1> QED
  BY <1>1, <1>2, <1>4, <1>6 DEF Oven, Grinder, Switch, Top, Ref, Kg, Field

LEMMA LinePins ==
    ASSUME NEW l \in Line
    PROVE  /\ GrinderPin(l) \in 9 .. 10 /\ GrinderPin(l) \in Pin
           /\ CounterPin(l) \in Pin /\ Mask(l) \subseteq 0 .. 5
           /\ \A k \in Line : GrinderPin(k) = GrinderPin(l) => k = l
<1>1. l = 1 \/ l = 2
  BY DEF Line
<1>2. CounterPin(l) \in Pin
  BY <1>1 DEF CounterPin, CounterAddress, CounterBegin, Pin
<1> QED
  BY <1>1, <1>2 DEF GrinderPin, Pin, Mask, Line

LEMMA CoilTypes ==
    ASSUME ddr \subseteq Pin, port \subseteq Pin, adcOn \subseteq Pin, countersOn \subseteq Pin
    PROVE  CoilsOn \subseteq Coil
BY DEF CoilsOn, Coil, Pin, IOD, IOM, EIP, EC, PO

-----------------------------------------------------------------------------
(* The steps, and what they do to the plant and to the tables.             *)

\* What a key, the next round or a late answer may leave of a request.
Asks     == /\ tui \in {"poll", "key"} /\ tui' = "read" /\ UNCHANGED <<readOp, tables>>
            /\ request' = [op |-> "read", addr |-> readOp, value |-> 0]
Ends     == End /\ request' \in {request, NoRequest}
SetsCoil == \E op \in {"coil", "toggle"}, addr \in Nat, v \in {0, 1} :
               /\ tui = "key" /\ WriteCoils(op, addr, v)
               /\ op = "toggle" => v = IF addr \in coils THEN 0 ELSE 1
SetsWord == \E addr \in Nat, v \in Word :
               /\ tui = "key" /\ tui' = "write" /\ readOp' = READ_COUNTERS
               /\ request' = [op |-> "register", addr |-> addr, value |-> v]
               /\ UNCHANGED tables

Operates ==
    /\ keys' \in {keys, keys + 1} /\ (keys' = keys \/ keys < MaxKeys) /\ Alone
    /\ Asks \/ Ends \/ SetsCoil \/ SetsWord

LEMMA OperatorSteps == Poll \/ TimedOut \/ Key => Operates
<1>1. CASE Poll
  BY <1>1 DEF Poll, Ask, Operates, Asks
<1>2. CASE TimedOut
  BY <1>2 DEF TimedOut, Operates, Ends
<1>3. CASE NoKey
  BY <1>3 DEF NoKey, Ask, Operates, Asks
<1>4. CASE QuitKey
  BY <1>4 DEF QuitKey, Press, Raise, Operates, Ends
<1>5. CASE CommandKey
  <2>1. {SaveCoil, LoadCoil, RunningCoil} \subseteq Nat
    BY DEF SaveCoil, LoadCoil, RunningCoil
  <2>2. SetsCoil
    BY <1>5, <2>1 DEF CommandKey, Press, SetsCoil
  <2> QED
    BY <1>5, <2>2 DEF CommandKey, Press, Operates
<1>6. ASSUME NEW addr \in Coils, CoilKey(addr) PROVE Operates
  <2>1. addr \in Nat
    BY TuiAssumption DEF Config, PO, Pin
  <2>2. SetsCoil
    BY <1>6, <2>1 DEF CoilKey, Press, SetsCoil
  <2> QED
    BY <1>6, <2>2 DEF CoilKey, Press, Operates
<1>7. ASSUME NEW addr \in Registers, StepKey(addr) \/ EnterKey(addr) PROVE Operates
  <2>1. Press /\ addr \in Nat
    BY <1>7, TuiAssumption DEF StepKey, EnterKey, Register
  <2>2. Ask \/ Raise \/ \E v : WriteRegisters(addr, v)
    BY <1>7 DEF StepKey, EnterKey
  <2>3. ASSUME NEW v, WriteRegisters(addr, v) PROVE Ends \/ SetsWord
    <3>1. CASE v \in Word
      BY <2>1, <2>3, <3>1 DEF WriteRegisters, SetsWord, Press
    <3>2. CASE v \notin Word
      BY <2>3, <3>2 DEF WriteRegisters, Raise, Ends
    <3> QED
      BY <3>1, <3>2
  <2>4. Asks \/ Ends \/ SetsWord
    BY <2>1, <2>2, <2>3 DEF Ask, Raise, Asks, Ends, Press
  <2> QED
    BY <2>1, <2>4 DEF Press, Operates
<1> QED
  BY <1>1, <1>2, <1>3, <1>4, <1>5, <1>6, <1>7 DEF Key

\* The main loop leaves what the program knows.
Knows == UNCHANGED <<tui, readOp, known, coils, counters, user, keys>>

\* Every step is one of these.
LEMMA Steps ==
    ASSUME Next
    PROVE  \/ Operates
           \/ TakeReports /\ unseen' = unseen \cup {l \in Line : CounterPin(l) \in reported}
              /\ Moves /\ Knows
           \/ ServeNothing /\ UNCHANGED unseen /\ Moves /\ Knows
           \/ \E fallen \in SUBSET Enabled : \E again \in SUBSET fallen :
                 Counters(fallen, again) /\ UNCHANGED unseen /\ Moves /\ Knows
           \/ \E time \in Times : Loop(time) /\ UNCHANGED unseen /\ Moves /\ Knows
           \/ Read
           \/ Written
BY OperatorSteps DEF Next, MainLoop, Slave, Knows

\* What a write to a coil leaves alone.
LEMMA CoilServed ==
    ASSUME ServeCoil
    PROVE  /\ turn = "serve" /\ turn' = "counters" /\ request' = NoRequest
           /\ request.op \in {"coil", "toggle"}
           /\ UNCHANGED <<userData, mirror, counted, assign, reported, twice, bags, last, stopped>>
           /\ armed' = {} \/ (UNCHANGED <<running, armed>>)
<1>1. CASE SetRunning
  BY <1>1 DEF SetRunning, ServedCoil, Served, pinVars, countVars
<1>2. CASE SaveConfig
  BY <1>2 DEF SaveConfig, ServedCoil, Served, loopVars
<1>3. CASE LoadConfig
  BY <1>3 DEF LoadConfig, ServedCoil, Served, countVars, loopVars
<1>4. CASE WriteCoil
  BY <1>4 DEF WriteCoil, Served, countVars, loopVars
<1> QED
  BY <1>1, <1>2, <1>3, <1>4 DEF ServeCoil

-----------------------------------------------------------------------------
(* Types.                                                                  *)

LEMMA OfPins == \A kind, coils_ : Of(kind, coils_) \subseteq Pin
BY DEF Of

LEMMA PlantTypeInit ==
    ASSUME Init
    PROVE  PlantTypeOK
<1>1. 0 \in Word /\ MaxBags \in Nat
  BY PlantAssumption DEF Word
<1>2. userData \in [Field -> Word]
  BY TuiAssumption DEF Init
<1>3. eeprom.valid \in BOOLEAN /\ eeprom.coils \subseteq Config
  <2>1. \/ eeprom = [valid |-> FALSE, coils |-> {}]
        \/ \E S \in Saved : eeprom = [valid |-> TRUE, coils |-> S]
    BY DEF Init, PlantInit
  <2>2. CASE eeprom = [valid |-> FALSE, coils |-> {}]
    BY <2>2
  <2>3. ASSUME NEW S \in Saved, eeprom = [valid |-> TRUE, coils |-> S]
        PROVE  eeprom.valid \in BOOLEAN /\ eeprom.coils \subseteq Config
    <3>1. S \subseteq Config
      BY PlantAssumption, Zenon DEF Config
    <3> QED
      BY <2>3, <3>1
  <2> QED
    BY <2>1, <2>2, <2>3
<1>4. /\ ddr \subseteq Pin /\ port \subseteq Pin /\ signals \subseteq Pin
      /\ countersOn \subseteq Pin /\ channels \subseteq PortC
  BY OfPins DEF Init, PlantInit, Accepted
<1>5. DOMAIN enable \subseteq Pin
  BY OfPins DEF Init, PlantInit
<1>6. /\ turn \in {"pduh", "serve", "counters", "loop"}
      /\ request.op \in {"none", "read", "coil", "toggle", "register"}
      /\ request.addr \in Nat /\ request.value \in Word
  BY <1>1 DEF Init, PlantInit, NoRequest
<1>7. /\ reported \subseteq Pin /\ twice \subseteq Pin /\ adcOn \subseteq PortC
      /\ armed \subseteq Line /\ stopped \subseteq Line /\ bags \in 0 .. MaxBags
  BY <1>1 DEF Init, PlantInit
<1>8. running \in BOOLEAN /\ late \in BOOLEAN
  BY Zenon DEF Init, PlantInit
<1>9. /\ mirror \in [Line -> Word] /\ counted \in [Line -> Word] /\ last \in [Line -> Word]
      /\ DOMAIN assign \subseteq Line /\ \A l \in DOMAIN assign : assign[l] \in Word
  BY <1>1 DEF Init, PlantInit
<1> QED
  BY <1>2, <1>3, <1>4, <1>5, <1>6, <1>7, <1>8, <1>9, Zenon DEF PlantTypeOK

LEMMA TypeInit == Init => TypeOK
<1> SUFFICES ASSUME Init PROVE TypeOK
  OBVIOUS
<1>1. 0 \in Word /\ MaxKeys \in Nat
  BY PlantAssumption, TuiAssumption DEF Word
<1> QED
  BY <1>1, PlantTypeInit DEF Init, TypeOK, READ_COILS

LEMMA CountsAreWords ==
    ASSUME PlantTypeOK, NEW fallen \in SUBSET Enabled, NEW again \in SUBSET fallen,
           Counters(fallen, again)
    PROVE  PlantTypeOK'
<1>1. \A w \in Word : Incremented(w) \in Word
  BY PlantAssumption DEF Word, Incremented
<1>2. Enabled \subseteq Pin
  BY DEF Enabled, PlantTypeOK
<1>3. IsFiniteSet(fallen) /\ IsFiniteSet(again)
  <2>1. \A n \in Nat : IsFiniteSet(0 .. n)
    BY FS_Interval
  <2>2. fallen \subseteq 0 .. 23 /\ again \subseteq 0 .. 23
    BY <1>2 DEF Pin
  <2> QED
    BY <2>1, <2>2, FS_Subset
<1>4. Cardinality(fallen) \in Nat /\ Cardinality(again) \in Nat
  BY <1>3, FS_CardinalityType
<1>5. bags' \in 0 .. MaxBags
  BY <1>4, PlantAssumption DEF PlantTypeOK, Counters
<1>6. counted' \in [Line -> Word]
  <2>1. \A l \in Line : (IF l \in DOMAIN assign THEN assign[l] ELSE counted[l]) \in Word
    BY DEF PlantTypeOK
  <2> QED
    BY <1>1, <2>1 DEF Counters
<1>7. signals' \subseteq Pin /\ reported' \subseteq Pin /\ twice' \subseteq Pin
  BY <1>2 DEF Counters, PlantTypeOK
<1>8. DOMAIN assign' = {} /\ DOMAIN enable' = {} /\ late' = FALSE
  BY DEF Counters
<1>9. turn' \in {"pduh", "loop"}
  BY DEF Counters
<1> QED
  BY <1>5, <1>6, <1>7, <1>8, <1>9 DEF PlantTypeOK, Counters, loopVars

LEMMA LoopTypes ==
    ASSUME PlantTypeOK, NEW time \in Times, Loop(time)
    PROVE  PlantTypeOK'
<1>1. \A l \in Line : Weight(l, time) \in Word
  <2>1. SUFFICES ASSUME NEW l \in Line PROVE Weight(l, time) \in Word
    OBVIOUS
  <2>2. userData[Ref(l)] \in Int
    BY Fields DEF PlantTypeOK, Word
  <2>3. Spread \in Nat \ {0} /\ WordMod \in Nat \ {0} /\ Tick \in Nat \ {0} /\ time \in Int
    BY PlantAssumption DEF Times
  <2>4. (time \div Tick) % Spread \in Int /\ Spread \div 2 \in Int
    BY <2>3
  <2>5. \A n \in Int : n % WordMod \in 0 .. WordMod - 1
    BY <2>3
  <2> QED
    BY <2>2, <2>4, <2>5 DEF Weight, Word
<1>2. userData' \in [Field -> Word]
  <2>1. SUFFICES ASSUME NEW f \in Field PROVE userData'[f] \in Word
    BY DEF Loop
  <2>2. 0 \in Word /\ userData[f] \in Word
    BY PlantAssumption DEF PlantTypeOK, Word
  <2>3. \A l \in Line : f = Kg(l) => f - 9 = l
    BY DEF Kg, Line
  <2> QED
    BY <1>1, <2>2, <2>3 DEF Loop
<1>3. port' \subseteq Pin
  <2>1. Mask(1) \subseteq Pin /\ Mask(2) \subseteq Pin
    BY DEF Mask, Pin
  <2>2. \A l \in Line : GrinderPin(l) \in Pin
    BY LinePins
  <2>3. port \subseteq Pin
    BY DEF PlantTypeOK
  <2> QED
    BY <2>1, <2>2, <2>3 DEF Loop, set_with_mask
<1>4. last' \in [Line -> Word]
  BY DEF Loop, PlantTypeOK
<1>5. armed' \subseteq Line /\ stopped' \subseteq Line /\ turn' = "pduh"
  BY DEF Loop
<1> QED
  BY <1>2, <1>3, <1>4, <1>5 DEF Loop, PlantTypeOK, countVars

LEMMA CoilServedTypes ==
    ASSUME PlantTypeOK, ServeCoil
    PROVE  PlantTypeOK'
<1>1. turn' \in {"pduh", "serve", "counters", "loop"} /\ request' = NoRequest
  BY CoilServed
<1>2. request'.op = "none" /\ request'.addr \in Nat /\ request'.value \in Word
  BY <1>1, PlantAssumption DEF NoRequest, Word
<1>3. CASE SetRunning
  BY <1>1, <1>2, <1>3 DEF SetRunning, pinVars, countVars, PlantTypeOK
<1>4. CASE SaveConfig
  BY <1>1, <1>2, <1>4 DEF SaveConfig, loopVars, PlantTypeOK
<1>5. CASE LoadConfig
  <2>1. UNCHANGED <<signals, eeprom, countVars, loopVars>>
    BY <1>5 DEF LoadConfig
  <2>2. /\ ddr' \subseteq Pin /\ port' \subseteq Pin /\ countersOn' \subseteq Pin
        /\ channels' \subseteq PortC /\ adcOn' \subseteq PortC /\ DOMAIN enable' \subseteq Pin
    <3>1. Accepted \subseteq Pin
      BY DEF Accepted, Pin
    <3> QED
      BY <1>5, <3>1, OfPins DEF LoadConfig, PlantTypeOK
  <2> QED
    BY <1>1, <1>2, <2>1, <2>2 DEF countVars, loopVars, PlantTypeOK
<1>6. CASE WriteCoil
  <2>1. UNCHANGED <<signals, eeprom, countVars, loopVars>>
    BY <1>6 DEF WriteCoil
  <2>2. /\ ddr' \subseteq Pin /\ port' \subseteq Pin /\ countersOn' \subseteq Pin
        /\ channels' \subseteq PortC /\ adcOn' \subseteq PortC /\ DOMAIN enable' \subseteq Pin
    BY <1>6, OfPins DEF WriteCoil, SetBits, PlantTypeOK
  <2> QED
    BY <1>1, <1>2, <2>1, <2>2 DEF countVars, loopVars, PlantTypeOK
<1> QED
  BY <1>3, <1>4, <1>5, <1>6 DEF ServeCoil

LEMMA RegisterServedTypes ==
    ASSUME PlantTypeOK, ServeRegister
    PROVE  PlantTypeOK'
<1>1. request.value \in Word /\ 0 \in Word
  BY PlantAssumption DEF PlantTypeOK, Word
<1>2. turn' = "counters" /\ request' = NoRequest
  BY DEF ServeRegister, Served
<1>3. mirror' \in [Line -> Word] /\ userData' \in [Field -> Word]
  BY <1>1 DEF ServeRegister, PlantTypeOK
<1>4. DOMAIN assign' \subseteq Line /\ \A l \in DOMAIN assign' : assign'[l] \in Word
  BY <1>1 DEF ServeRegister
<1>5. ddr' \subseteq Pin /\ armed' \subseteq Line
  <2>1. \A a \in {8, 9} : TimerPin[a] \in Pin
    BY DEF TimerPin, Pin
  <2>2. ddr \subseteq Pin /\ armed \subseteq Line
    BY DEF PlantTypeOK
  <2>3. ddr' \ ddr \subseteq {TimerPin[a] : a \in {8, 9}}
    BY DEF ServeRegister
  <2>4. armed' \subseteq armed
    BY DEF ServeRegister
  <2> QED
    BY <2>1, <2>2, <2>3, <2>4
<1> QED
  BY <1>1, <1>2, <1>3, <1>4, <1>5 DEF ServeRegister, NoRequest, PlantTypeOK

LEMMA MovedType ==
    ASSUME PlantTypeOK, PlantTypeOK', moved \subseteq Coil, Moves
    PROVE  moved' \subseteq Coil
<1>1. CoilsOn \subseteq Coil
  BY CoilTypes DEF PlantTypeOK, PortC, Pin
<1>2. PlantTypeOK' => (CoilsOn \subseteq Coil)'
  <2>1. PlantTypeOK => CoilsOn \subseteq Coil
    BY CoilTypes DEF PlantTypeOK, PortC, Pin
  <2> QED
    BY DEF PlantTypeOK, PortC, Pin, CoilsOn, Coil, IOD, IOM, EIP, EC, PO
<1> QED
  BY <1>1, <1>2 DEF Moves, Coil

LEMMA TypeStep == TypeOK /\ [Next]_vars => TypeOK'
<1> SUFFICES ASSUME TypeOK, [Next]_vars PROVE TypeOK'
  OBVIOUS
<1>1. CASE UNCHANGED vars
  BY <1>1 DEF vars, plantVars, tuiVars, tables, pinVars, countVars, loopVars, TypeOK, PlantTypeOK
<1>2. CASE Operates
  <2>1. {0, 1} \subseteq Word
    BY PlantAssumption DEF Word
  <2>2. request'.op \in {"none", "read", "coil", "toggle", "register"}
        /\ request'.addr \in Nat /\ request'.value \in Word
    <3>1. CASE Asks
      BY <2>1, <3>1 DEF Asks, TypeOK
    <3>2. CASE Ends
      BY <2>1, <3>2 DEF Ends, NoRequest, TypeOK, PlantTypeOK
    <3>3. CASE SetsCoil
      BY <2>1, <3>3 DEF SetsCoil, WriteCoils
    <3>4. CASE SetsWord
      BY <3>4 DEF SetsWord
    <3> QED
      BY <1>2, <3>1, <3>2, <3>3, <3>4 DEF Operates
  <2>3. PlantTypeOK'
    BY <1>2, <2>2 DEF Operates, Alone, pinVars, countVars, loopVars, TypeOK, PlantTypeOK
  <2>4. keys' \in 0 .. MaxKeys
    BY <1>2, TuiAssumption DEF Operates, TypeOK
  <2>5. /\ tui' \in {"read", "write", "ended"} /\ readOp' \in 0 .. 3
        /\ \/ UNCHANGED tables
           \/ /\ known' = {} /\ coils' = {} /\ unseen' = {} /\ moved' = {}
              /\ counters' = [l \in Line |-> 0] /\ user' = [f \in Field |-> 0]
    <3>1. CASE Asks
      BY <3>1 DEF Asks, TypeOK
    <3>2. CASE Ends
      BY <3>2 DEF Ends, End, READ_COILS
    <3>3. CASE SetsCoil
      BY <3>3 DEF SetsCoil, WriteCoils, READ_COILS
    <3>4. CASE SetsWord
      BY <3>4 DEF SetsWord, READ_COUNTERS
    <3> QED
      BY <1>2, <3>1, <3>2, <3>3, <3>4 DEF Operates
  <2>6. CASE UNCHANGED tables
    BY <2>3, <2>4, <2>5, <2>6 DEF tables, TypeOK
  <2>7. CASE ~(UNCHANGED tables)
    BY <2>1, <2>3, <2>4, <2>5, <2>7 DEF TypeOK
  <2> QED
    BY <2>6, <2>7
<1>3. ASSUME PlantTypeOK', Moves, Knows, unseen' \subseteq Line PROVE TypeOK'
  <2>1. moved' \subseteq Coil
    BY <1>3, MovedType DEF TypeOK
  <2> QED
    BY <1>3, <2>1 DEF Knows, TypeOK
<1>4. CASE TakeReports /\ unseen' = unseen \cup {l \in Line : CounterPin(l) \in reported}
           /\ Moves /\ Knows
  <2>1. PlantTypeOK'
    BY <1>4 DEF TakeReports, loopVars, TypeOK, PlantTypeOK
  <2> QED
    BY <1>3, <1>4, <2>1 DEF TypeOK
<1>5. CASE ServeNothing /\ UNCHANGED unseen /\ Moves /\ Knows
  <2>1. PlantTypeOK'
    BY <1>5 DEF ServeNothing, pinVars, countVars, loopVars, TypeOK, PlantTypeOK
  <2> QED
    BY <1>3, <1>5, <2>1 DEF TypeOK
<1>6. ASSUME NEW fallen \in SUBSET Enabled, NEW again \in SUBSET fallen,
             Counters(fallen, again), UNCHANGED unseen, Moves, Knows
      PROVE  TypeOK'
  BY <1>3, <1>6, CountsAreWords DEF TypeOK
<1>7. ASSUME NEW time \in Times, Loop(time), UNCHANGED unseen, Moves, Knows PROVE TypeOK'
  BY <1>3, <1>7, LoopTypes DEF TypeOK
<1>8. CASE Read
  <2>1. PlantTypeOK'
    BY <1>8, PlantAssumption
    DEF Read, ServeRead, Served, NoRequest, Word, pinVars, countVars, loopVars, TypeOK, PlantTypeOK
  <2>2. CoilsOn \subseteq Coil
    BY CoilTypes DEF TypeOK, PlantTypeOK, PortC, Pin
  <2>3. coils' \subseteq Coil /\ moved' \subseteq Coil /\ known' \subseteq 0 .. 3
    BY <1>8, <2>2 DEF Read, tables, TypeOK
  <2>4. counters' \in [Line -> Word] /\ user' \in [Field -> Word] /\ unseen' \subseteq Line
    BY <1>8 DEF Read, tables, TypeOK, PlantTypeOK
  <2>5. readOp' \in 0 .. 3 /\ tui' \in {"poll", "read", "key", "write", "ended"} /\ keys' = keys
    BY <1>8 DEF Read, TypeOK
  <2> QED
    BY <2>1, <2>3, <2>4, <2>5 DEF TypeOK
<1>9. CASE Written
  <2>1. tui' \in {"poll", "read", "key", "write", "ended"}
        /\ UNCHANGED <<readOp, known, coils, counters, user, unseen, keys>>
    BY <1>9 DEF Written, TypeOK
  <2>2. CASE ServeCoil /\ UNCHANGED moved
    BY <2>1, <2>2, CoilServedTypes DEF TypeOK
  <2>3. CASE ServeRegister /\ Moves
    BY <2>1, <2>3, RegisterServedTypes, MovedType DEF TypeOK
  <2> QED
    BY <1>9, <2>2, <2>3 DEF Written
<1> QED
  BY <1>1, <1>2, <1>4, <1>5, <1>6, <1>7, <1>8, <1>9, Steps

-----------------------------------------------------------------------------
(* The inductive invariant.                                                *)

\* What the two daemons have of a count differs by what is on its way: nothing,
\* if no report is, and at most one bag, unless two fell in one turn.
Lag ==
    /\ turn \in {"pduh", "loop"} =>
           \A l \in Line : \/ counted[l] = mirror[l]
                           \/ /\ CounterPin(l) \in reported
                              /\ counted[l] = Incremented(mirror[l]) \/ CounterPin(l) \in twice
    /\ turn = "serve" => \A l \in Line : counted[l] = mirror[l]
    /\ turn = "counters" =>
           \A l \in Line : mirror[l] = IF l \in DOMAIN assign THEN assign[l] ELSE counted[l]
    /\ turn # "counters" => DOMAIN assign = {}

\* An armed line has a top that its count has not passed, and the program runs.
Armed ==
    /\ turn = "loop" => running
    /\ ~running => armed = {}
    /\ \A l \in armed :
           /\ On(l) /\ userData[Top(l)] # 0 /\ mirror[l] <= userData[Top(l)]
           /\ turn = "pduh" => mirror[l] # userData[Top(l)] /\ CounterPin(l) \notin twice

\* One request at a time, until the program ends, and the table read next goes
\* with what is written; what a toggle writes is the opposite of the table.
Requests ==
    /\ tui \in {"poll", "key"} => request.op = "none"
    /\ tui = "read" => request.op = "read"
    /\ tui = "write" => \/ request.op \in {"coil", "toggle"} /\ readOp = READ_COILS
                        \/ request.op = "register" /\ readOp = READ_COUNTERS
    /\ tui = "write" /\ request.op = "toggle" =>
           request.value = IF request.addr \in coils THEN 0 ELSE 1

\* The table is going to be read before the next key.
AskedNext(table) == readOp = table /\ tui \in {"poll", "read"}

\* A table that is older than a write is read before the next key.
Tables ==
    /\ tui = "ended" => known = {}
    /\ READ_COILS \notin known => readOp = READ_COILS /\ tui \in {"poll", "read", "ended"}
    /\ READ_COILS \in known /\ ~AskedNext(READ_COILS) => coils \ moved = CoilsOn \ moved
    /\ READ_COUNTERS \in known /\ ~AskedNext(READ_COUNTERS) =>
           \A l \in Line \ unseen : counters[l] = mirror[l]
    /\ moved \subseteq Movable

PlantInv == TypeOK /\ Lag /\ Armed /\ Requests /\ Tables /\ PinsFollow

LEMMA PlantInvInit == Init => PlantInv
<1> SUFFICES ASSUME Init PROVE PlantInv
  OBVIOUS
<1>1. TypeOK
  BY TypeInit
<1>2. Lag
  BY DEF Init, PlantInit, Lag
<1>3. Armed
  BY DEF Init, PlantInit, Armed
<1>4. Requests
  BY DEF Init, PlantInit, NoRequest, Requests
<1>5. Tables
  BY DEF Init, Tables, AskedNext
<1>6. PinsFollow
  BY DEF Init, PlantInit, PinsFollow
<1> QED
  BY <1>1, <1>2, <1>3, <1>4, <1>5, <1>6 DEF PlantInv

\* The counters daemon changes a count, the PDU handler hears of it in its next
\* turn, and what the master writes is on its way for one turn only.
LEMMA LagStep ==
    ASSUME TypeOK, Lag, [Next]_vars
    PROVE  Lag'
<1>1. CASE UNCHANGED vars
  BY <1>1 DEF vars, plantVars, countVars, Lag
<1>2. CASE Operates
  BY <1>2 DEF Operates, Alone, countVars, Lag
<1>3. CASE TakeReports
  <2>1. \A l \in Line : mirror'[l] = counted[l]
    BY <1>3 DEF TakeReports, Lag
  <2> QED
    BY <1>3, <2>1 DEF TakeReports, Lag
<1>4. CASE ServeNothing
  BY <1>4 DEF ServeNothing, countVars, Lag
<1>5. ASSUME NEW fallen \in SUBSET Enabled, NEW again \in SUBSET fallen,
             Counters(fallen, again)
      PROVE  Lag'
  <2>1. \A l \in Line :
            counted'[l] = IF CounterPin(l) \in again THEN Incremented(Incremented(mirror[l]))
                          ELSE IF CounterPin(l) \in fallen THEN Incremented(mirror[l])
                          ELSE mirror[l]
    BY <1>5 DEF Counters, Lag
  <2>2. /\ fallen \subseteq reported' /\ twice' = again /\ mirror' = mirror
        /\ DOMAIN assign' = {} /\ turn' \in {"pduh", "loop"}
    BY <1>5 DEF Counters
  <2> QED
    BY <2>1, <2>2 DEF Lag
<1>6. ASSUME NEW time \in Times, Loop(time) PROVE Lag'
  BY <1>6 DEF Loop, countVars, Lag
<1>7. CASE Read
  BY <1>7 DEF Read, ServeRead, Served, countVars, Lag
<1>8. CASE Written
  <2>1. CASE ServeCoil
    BY <2>1, CoilServed DEF Lag
  <2>2. CASE ServeRegister
    <3>1. /\ turn' = "counters" /\ turn = "serve" /\ counted' = counted
          /\ \A l \in Line : mirror'[l] = IF l \in DOMAIN assign' THEN assign'[l] ELSE mirror[l]
      BY <2>2 DEF ServeRegister, Served
    <3> QED
      BY <3>1 DEF Lag
  <2> QED
    BY <1>8, <2>1, <2>2 DEF Written
<1> QED
  BY <1>1, <1>2, <1>3, <1>4, <1>5, <1>6, <1>7, <1>8, Steps

\* A count goes up by one, in words that do not wrap below the top, and is
\* compared before the next one is heard of.
LEMMA ArmedStep ==
    ASSUME TypeOK, Lag, Armed, [Next]_vars
    PROVE  Armed'
<1> USE DEF On
<1>1. CASE UNCHANGED vars
  BY <1>1 DEF vars, plantVars, countVars, loopVars, Armed
<1>2. CASE Operates
  BY <1>2 DEF Operates, Alone, countVars, loopVars, Armed
<1>3. CASE TakeReports
  <2>1. ASSUME NEW l \in armed PROVE mirror'[l] <= userData[Top(l)]
    <3>1. /\ l \in Line /\ mirror[l] \in Word /\ userData[Top(l)] \in Word
      BY Fields DEF TypeOK, PlantTypeOK
    <3>2. turn = "pduh" /\ mirror[l] < userData[Top(l)] /\ CounterPin(l) \notin twice
      BY <1>3, <3>1 DEF TakeReports, Armed, Word
    <3>3. Incremented(mirror[l]) = mirror[l] + 1
      <4>1. mirror[l] + 1 \in 0 .. WordMod - 1 /\ WordMod \in Nat \ {0}
        BY <3>1, <3>2, PlantAssumption DEF Word
      <4> QED
        BY <4>1 DEF Incremented
    <3>4. mirror'[l] = mirror[l] \/ mirror'[l] = mirror[l] + 1
      BY <1>3, <3>1, <3>2, <3>3 DEF TakeReports, Lag
    <3> QED
      BY <3>1, <3>2, <3>4 DEF Word
  <2>2. turn' = "serve" /\ UNCHANGED <<running, armed, userData>>
    BY <1>3 DEF TakeReports, loopVars
  <2> QED
    BY <2>1, <2>2 DEF Armed
<1>4. CASE ServeNothing
  BY <1>4 DEF ServeNothing, countVars, loopVars, Armed
<1>5. ASSUME NEW fallen \in SUBSET Enabled, NEW again \in SUBSET fallen,
             Counters(fallen, again)
      PROVE  Armed'
  <2>1. /\ turn' = IF running THEN "loop" ELSE "pduh"
        /\ running' = running /\ armed' = armed /\ userData' = userData /\ mirror' = mirror
    BY <1>5 DEF Counters, loopVars
  <2>2. \A l \in armed : turn' = "loop"
    BY <2>1 DEF Armed
  <2> QED
    BY <2>1, <2>2 DEF Armed
<1>6. ASSUME NEW time \in Times, Loop(time) PROVE Armed'
  <2>1. running' /\ turn' = "pduh" /\ mirror' = mirror /\ twice' = twice
    BY <1>6 DEF Loop, countVars, Armed
  <2>2. ASSUME NEW l \in armed'
        PROVE  /\ On(l)' /\ userData'[Top(l)] # 0 /\ mirror[l] < userData'[Top(l)]
               /\ CounterPin(l) \notin twice
    <3>1. /\ l \in Line /\ On(l) /\ ~Reached(l) /\ CounterPin(l) \notin twice
          /\ l \in armed \/ mirror[l] < userData[Top(l)]
      BY <1>6, <2>2 DEF Loop
    <3>2. mirror[l] \in Word /\ userData[Top(l)] \in Word
      BY <3>1, Fields DEF TypeOK, PlantTypeOK
    <3>3. userData[Top(l)] # 0 /\ mirror[l] < userData[Top(l)]
      BY <3>1, <3>2 DEF Reached, Armed, Word
    <3>4. userData'[Top(l)] = userData[Top(l)] /\ userData'[Switch(l)] = userData[Switch(l)]
      <4>1. Top(l) \in Field /\ Switch(l) \in Field
        BY <3>1, Fields
      <4>2. \A k \in Line : Reached(k) => k # l
        BY <3>1
      <4>3. \A k \in Line : Reached(k) =>
               /\ Top(l) \notin Located(SwitchAddress[k] - UserBegin)
               /\ Switch(l) \notin Located(SwitchAddress[k] - UserBegin)
        BY <3>1, <4>2, Fields
      <4>4. \A k \in Line : Kg(k) # Top(l) /\ Kg(k) # Switch(l)
        BY <3>1, Fields
      <4> QED
        BY <1>6, <4>1, <4>3, <4>4 DEF Loop
    <3> QED
      BY <3>1, <3>3, <3>4
  <2>3. \A l \in armed' : mirror'[l] <= userData'[Top(l)] /\ mirror'[l] # userData'[Top(l)]
    <3>1. \A l \in armed' : l \in Line /\ mirror[l] \in Int
      BY <1>6 DEF Loop, TypeOK, PlantTypeOK, Word
    <3>2. \A l \in Line : userData'[Top(l)] \in Int
      BY <1>6, LoopTypes, Fields DEF TypeOK, PlantTypeOK, Word
    <3> QED
      BY <2>1, <2>2, <3>1, <3>2
  <2> QED
    BY <2>1, <2>2, <2>3 DEF Armed
<1>7. CASE Read
  BY <1>7 DEF Read, ServeRead, Served, countVars, loopVars, Armed
<1>8. CASE Written
  <2>1. CASE ServeCoil
    <3>1. UNCHANGED <<userData, mirror, twice>> /\ turn' = "counters"
      BY <2>1, CoilServed
    <3>2. armed' = {} \/ UNCHANGED <<running, armed>>
      BY <2>1, CoilServed
    <3> QED
      BY <3>1, <3>2 DEF Armed
  <2>2. CASE ServeRegister
    <3> DEFINE lines  == {l \in Line : CounterAddress[l] = request.addr}
               fields == IF request.addr >= UserBegin THEN Located(request.addr - UserBegin) ELSE {}
    <3>1. /\ turn' = "counters" /\ running' = running
          /\ mirror' = [l \in Line |-> IF l \in lines THEN request.value ELSE mirror[l]]
          /\ userData' = [f \in Field |-> IF f \in fields THEN request.value ELSE userData[f]]
          /\ armed' = armed \ (lines \cup {l \in Line : Top(l) \in fields \/ Switch(l) \in fields})
      BY <2>2 DEF ServeRegister, Served
    <3> HIDE DEF lines, fields
    <3>2. ASSUME NEW l \in armed'
          PROVE  /\ l \in armed /\ mirror'[l] = mirror[l]
                 /\ userData'[Top(l)] = userData[Top(l)]
                 /\ userData'[Switch(l)] = userData[Switch(l)]
      <4>1. l \in armed /\ l \in Line
        BY <3>1 DEF TypeOK, PlantTypeOK
      <4>2. l \notin lines /\ Top(l) \notin fields /\ Switch(l) \notin fields
        BY <3>1, <4>1
      <4>3. Top(l) \in Field /\ Switch(l) \in Field
        BY <4>1, Fields
      <4> QED
        BY <3>1, <4>1, <4>2, <4>3
    <3> QED
      BY <3>1, <3>2 DEF Armed
  <2> QED
    BY <1>8, <2>1, <2>2 DEF Written
<1> QED
  BY <1>1, <1>2, <1>3, <1>4, <1>5, <1>6, <1>7, <1>8, Steps

LEMMA RequestsStep ==
    ASSUME TypeOK, Requests, [Next]_vars
    PROVE  Requests'
<1>1. CASE UNCHANGED vars
  BY <1>1 DEF vars, plantVars, tuiVars, tables, Requests
<1>2. CASE Operates
  <2>1. CASE Asks
    BY <2>1 DEF Asks, Requests
  <2>2. CASE Ends
    BY <2>2 DEF Ends, End, Requests
  <2>3. CASE SetsCoil
    BY <2>3 DEF SetsCoil, WriteCoils, tables, Requests
  <2>4. CASE SetsWord
    BY <2>4 DEF SetsWord, Requests
  <2> QED
    BY <1>2, <2>1, <2>2, <2>3, <2>4 DEF Operates
<1>3. ASSUME request' = request, Knows PROVE Requests'
  BY <1>3 DEF Knows, Requests
<1>4. CASE TakeReports /\ Knows
  BY <1>3, <1>4 DEF TakeReports
<1>5. CASE ServeNothing /\ Knows
  BY <1>3, <1>5 DEF ServeNothing
<1>6. ASSUME NEW fallen, NEW again, Counters(fallen, again), Knows PROVE Requests'
  BY <1>3, <1>6 DEF Counters
<1>7. ASSUME NEW time, Loop(time), Knows PROVE Requests'
  BY <1>3, <1>7 DEF Loop
<1>8. CASE Read
  <2>1. request' = NoRequest /\ tui' \in {"key", tui} /\ (tui = "read" => tui' = "key")
        /\ request.op = "read"
    BY <1>8 DEF Read, ServeRead, Served
  <2> QED
    BY <2>1 DEF NoRequest, Requests
<1>9. CASE Written
  <2>1. request' = NoRequest /\ (tui = "write" => tui' = "poll") /\ (tui # "write" => tui' = tui)
        /\ request.op \in {"coil", "toggle", "register"}
    BY <1>9, CoilServed DEF Written, ServeRegister, Served
  <2> QED
    BY <2>1 DEF NoRequest, Requests
<1> QED
  BY <1>1, <1>2, <1>4, <1>5, <1>6, <1>7, <1>8, <1>9, Steps

\* The coils that no master writes are changed by reports, by loop() and by the
\* registers of the timers, and those are all movable.
LEMMA OthersMove ==
    ASSUME TypeOK,
           TakeReports \/ ServeNothing \/ ServeRegister
           \/ (\E fallen, again : Counters(fallen, again)) \/ (\E time : Loop(time))
    PROVE  (CoilsOn \ CoilsOn') \cup (CoilsOn' \ CoilsOn) \subseteq Movable
<1> DEFINE others == 0 .. 5 \cup {GrinderPin(l) : l \in Line}
           timers == {TimerPin[a] : a \in {8, 9}}
<1>1. /\ ddr \subseteq ddr' /\ ddr' \ ddr \subseteq timers
      /\ adcOn \subseteq adcOn' /\ adcOn' \subseteq PortC \cup adcOn
      /\ countersOn \subseteq countersOn' /\ countersOn' \subseteq Pin \cup countersOn
      /\ port \ port' \subseteq others /\ port' \ port \subseteq others
  <2>1. CASE TakeReports
    <3>1. adcOn' = adcOn \/ \E p \in channels : adcOn' = adcOn \cup {p}
      BY <2>1 DEF TakeReports
    <3>2. channels \subseteq PortC /\ reported \subseteq Pin
      BY DEF TypeOK, PlantTypeOK
    <3>3. countersOn' = countersOn \cup reported /\ UNCHANGED <<ddr, port>>
      BY <2>1 DEF TakeReports
    <3> HIDE DEF others, timers
    <3> QED
      BY <3>1, <3>2, <3>3
  <2>2. CASE ServeNothing
    BY <2>2 DEF ServeNothing, pinVars
  <2>3. CASE ServeRegister
    <3>1. UNCHANGED <<port, adcOn, countersOn>> /\ ddr \subseteq ddr' /\ ddr' \ ddr \subseteq timers
      BY <2>3 DEF ServeRegister
    <3> HIDE DEF others, timers
    <3> QED
      BY <3>1
  <2>4. ASSUME NEW fallen, NEW again, Counters(fallen, again)
        PROVE  UNCHANGED <<ddr, port, adcOn, countersOn>>
    BY <2>4 DEF Counters
  <2>5. ASSUME NEW time, Loop(time)
        PROVE  /\ UNCHANGED <<ddr, adcOn, countersOn>>
               /\ port \ port' \subseteq others /\ port' \ port \subseteq others
    <3>1. Mask(1) \subseteq 0 .. 5 /\ Mask(2) \subseteq 0 .. 5
      BY DEF Mask
    <3> QED
      BY <2>5, <3>1, Zenon DEF Loop, set_with_mask
  <2> HIDE DEF others, timers
  <2> QED
    BY <2>1, <2>2, <2>3, <2>4, <2>5
<1> HIDE DEF others, timers
<1>2. ASSUME NEW c \in (CoilsOn \ CoilsOn') \cup (CoilsOn' \ CoilsOn)
      PROVE  \/ \E p \in timers : c = IOD + p \/ c = EIP + p
             \/ \E p \in PortC : c = IOM + p
             \/ \E p \in Pin : c = EC + p
             \/ \E p \in others : c = PO + p \/ c = EIP + p
  BY <1>1, <1>2 DEF CoilsOn
<1>3. ASSUME NEW p \in timers PROVE IOD + p \in Movable /\ EIP + p \in Movable
  BY <1>3 DEF Movable, timers
<1>4. ASSUME NEW p \in others PROVE PO + p \in Movable /\ EIP + p \in Movable
  BY <1>4 DEF Movable, others
<1>5. \A p \in PortC : IOM + p \in Movable
  BY DEF Movable
<1>6. \A p \in Pin : EC + p \in Movable
  BY DEF Movable
<1> QED
  BY <1>2, <1>3, <1>4, <1>5, <1>6

\* A write that changes what a table shows makes that table the next one read,
\* and what others change is noted as such.
LEMMA TablesStep ==
    ASSUME TypeOK, Requests, Tables, [Next]_vars
    PROVE  Tables'
<1>1. CASE UNCHANGED vars
  BY <1>1 DEF vars, plantVars, tuiVars, tables, pinVars, countVars, Tables, AskedNext, CoilsOn
<1>2. CASE Operates
  <2>1. CoilsOn' = CoilsOn /\ mirror' = mirror
    BY <1>2 DEF Operates, Alone, pinVars, countVars, CoilsOn
  <2>2. CASE Asks
    BY <2>1, <2>2 DEF Asks, tables, Tables, AskedNext
  <2>3. CASE Ends
    BY <2>3 DEF Ends, End, Tables
  <2>4. CASE SetsCoil
    BY <2>1, <2>4 DEF SetsCoil, WriteCoils, tables, Tables, AskedNext
  <2>5. CASE SetsWord
    BY <2>1, <2>5 DEF SetsWord, tables, Tables, AskedNext
  <2> QED
    BY <1>2, <2>2, <2>3, <2>4, <2>5 DEF Operates
<1>3. ASSUME Moves, (CoilsOn \ CoilsOn') \cup (CoilsOn' \ CoilsOn) \subseteq Movable,
             known' = known, coils' = coils, readOp' = readOp
      PROVE  /\ moved' \subseteq Movable
             /\ READ_COILS \in known /\ coils \ moved = CoilsOn \ moved =>
                    coils' \ moved' = CoilsOn' \ moved'
  BY <1>3 DEF Moves, Tables
<1>4. ASSUME Moves, (CoilsOn \ CoilsOn') \cup (CoilsOn' \ CoilsOn) \subseteq Movable, Knows,
             unseen \subseteq unseen', \A l \in Line \ unseen' : mirror'[l] = mirror[l]
      PROVE  Tables'
  BY <1>3, <1>4 DEF Knows, Tables, AskedNext
<1>5. CASE TakeReports /\ unseen' = unseen \cup {l \in Line : CounterPin(l) \in reported}
           /\ Moves /\ Knows
  <2>1. \A l \in Line \ unseen' : mirror'[l] = mirror[l]
    BY <1>5 DEF TakeReports, TypeOK, PlantTypeOK
  <2> QED
    BY <1>4, <1>5, <2>1, OthersMove
<1>6. CASE ServeNothing /\ UNCHANGED unseen /\ Moves /\ Knows
  BY <1>4, <1>6, OthersMove DEF ServeNothing, countVars
<1>7. ASSUME NEW fallen, NEW again, Counters(fallen, again), UNCHANGED unseen, Moves, Knows
      PROVE  Tables'
  BY <1>4, <1>7, OthersMove DEF Counters
<1>8. ASSUME NEW time, Loop(time), UNCHANGED unseen, Moves, Knows PROVE Tables'
  BY <1>4, <1>8, OthersMove DEF Loop, countVars
<1>9. CASE Read
  <2>1. CoilsOn' = CoilsOn /\ mirror' = mirror /\ request.op = "read"
    BY <1>9 DEF Read, ServeRead, Served, pinVars, countVars, CoilsOn
  <2>2. CASE tui = "read"
    <3>1. /\ tui' = "key" /\ known' = known \cup {readOp} /\ readOp' = (readOp + 1) % 4
          /\ readOp = READ_COILS => coils' = CoilsOn /\ moved' = {}
          /\ readOp # READ_COILS => coils' = coils /\ moved' = moved
          /\ readOp = READ_COUNTERS => counters' = mirror
          /\ readOp # READ_COUNTERS => counters' = counters /\ unseen' = unseen
      BY <1>9, <2>2 DEF Read
    <3> QED
      BY <2>1, <2>2, <3>1, Zenon DEF Tables, AskedNext
  <2>3. CASE tui # "read"
    <3>1. UNCHANGED <<tui, readOp, tables>>
      BY <1>9, <2>3 DEF Read
    <3> QED
      BY <2>1, <3>1 DEF tables, Tables, AskedNext
  <2> QED
    BY <2>2, <2>3
<1>10. CASE Written
  <2>1. /\ UNCHANGED <<readOp, known, coils, counters, user, unseen, keys>>
        /\ tui' = IF tui = "write" THEN "poll" ELSE tui
    BY <1>10 DEF Written
  <2>2. ASSUME tui # "write" PROVE tui = "ended"
    <3>1. request.op \in {"coil", "toggle", "register"}
      BY <1>10, CoilServed DEF Written, ServeRegister, Served
    <3> QED
      BY <2>2, <3>1 DEF Requests, TypeOK
  <2>3. CASE ServeCoil /\ UNCHANGED moved
    <3>1. mirror' = mirror /\ request.op \in {"coil", "toggle"}
      BY <2>3, CoilServed
    <3>2. tui = "write" => readOp = READ_COILS
      BY <3>1 DEF Requests
    <3> QED
      BY <2>1, <2>2, <2>3, <3>1, <3>2 DEF Tables, AskedNext, READ_COILS, READ_COUNTERS
  <2>4. CASE ServeRegister /\ Moves
    <3>1. request.op = "register"
      BY <2>4 DEF ServeRegister, Served
    <3>2. tui = "write" => readOp = READ_COUNTERS
      BY <3>1 DEF Requests
    <3>3. /\ moved' \subseteq Movable
          /\ READ_COILS \in known /\ coils \ moved = CoilsOn \ moved =>
                 coils' \ moved' = CoilsOn' \ moved'
      BY <1>3, <2>1, <2>4, OthersMove
    <3> QED
      BY <2>1, <2>2, <3>2, <3>3 DEF Tables, AskedNext, READ_COILS, READ_COUNTERS
  <2> QED
    BY <1>10, <2>3, <2>4 DEF Written
<1> QED
  BY <1>1, <1>2, <1>5, <1>6, <1>7, <1>8, <1>9, <1>10, Steps

-----------------------------------------------------------------------------
(* The pins.                                                               *)

\* A grinder at full duty is on in all of its period.
LEMMA FullDuty ==
    ASSUME NEW time \in Times, NEW w \in Word, Low(w) >= Levels
    PROVE  time <= Low(w) * (Period \div Levels)
<1>1. Low(w) \in Nat /\ Levels \in Nat /\ Period \div Levels \in Nat
  BY PlantAssumption DEF Low, Word
<1>2. time \in Nat /\ time <= Levels * (Period \div Levels)
  BY PlantAssumption DEF Times
<1>3. \A a, b, d \in Nat : a >= b => b * d <= a * d
  <2>1. SUFFICES ASSUME NEW a \in Nat, NEW b \in Nat, NEW d \in Nat, a >= b PROVE b * d <= a * d
    OBVIOUS
  <2>2. a - b \in Nat /\ a * d = b * d + (a - b) * d
    BY <2>1
  <2>3. (a - b) * d \in Nat
    BY <2>2
  <2> QED
    BY <2>2, <2>3
<1>4. Levels * (Period \div Levels) <= Low(w) * (Period \div Levels)
  BY <1>1, <1>3
<1> HIDE DEF Low
<1> QED
  BY <1>1, <1>2, <1>4

LEMMA PinsKept ==
    ASSUME PinsFollow, UNCHANGED <<turn, running, userData, stopped, port, ddr>>
    PROVE  PinsFollow'
BY DEF PinsFollow, Follows, Pins, Heat, Ones, Turns, On, Low

\* The masks of the lines are apart from each other and from the grinders, so the
\* second line keeps what the first one has set, and the oven and grinder registers
\* are still those the pins were set from.
LEMMA PinsStep ==
    ASSUME TypeOK, PinsFollow, [Next]_vars
    PROVE  PinsFollow'
<1>1. CASE UNCHANGED vars
  BY <1>1, PinsKept DEF vars, plantVars, pinVars, loopVars
<1>2. CASE Operates
  BY <1>2, PinsKept DEF Operates, Alone, pinVars, loopVars
<1>3. CASE turn' # "pduh" \/ ~running'
  BY <1>3 DEF PinsFollow
<1>4. ASSUME NEW time \in Times, Loop(time) PROVE PinsFollow'
  <2> DEFINE ovens == set_with_mask(set_with_mask(port, Mask(1), Power(1)), Mask(2), Power(2))
             grinders == {GrinderPin(l) : l \in Line}
             turned == {GrinderPin(l) : l \in {k \in Line : Turns(k, On(k), time)}}
  <2>1. /\ port' = (ovens \ grinders) \cup turned /\ ddr' = ddr
        /\ stopped' = {l \in Line : Reached(l)}
        /\ \A f \in Field :
              \/ userData'[f] = userData[f]
              \/ \E l \in Line : Reached(l) /\ f \in Located(SwitchAddress[l] - UserBegin)
              \/ \E l \in Line : f = Kg(l)
    BY <1>4 DEF Loop
  <2>2. ASSUME NEW l \in Line PROVE Pins(l)' = (IF On(l) THEN Heat(l) ELSE {}) \cap ddr'
    <3>1. Mask(1) \cap Mask(2) = {}
      BY DEF Mask
    <3>2. ovens \cap Mask(1) = Power(1) \cap Mask(1) /\ ovens \cap Mask(2) = Power(2) \cap Mask(2)
      BY <3>1, Zenon DEF set_with_mask
    <3>3. ovens \cap Mask(l) = Power(l) \cap Mask(l)
      <4>1. l = 1 \/ l = 2
        BY DEF Line
      <4> QED
        BY <3>2, <4>1, Zenon
    <3>4. Power(l) \cap Mask(l) = IF On(l) THEN Heat(l) ELSE {}
      BY DEF Power, Heat
    <3>5. Mask(l) \cap grinders = {} /\ turned \subseteq grinders
      BY LinePins
    <3>6. Mask(l)' = Mask(l)
      BY DEF Mask
    <3> HIDE DEF ovens, grinders, turned
    <3> QED
      BY <2>1, <3>3, <3>4, <3>5, <3>6 DEF Pins
  <2>3. ASSUME NEW l \in Line PROVE GrinderPin(l) \in port' <=> Turns(l, On(l), time)
    <3>1. GrinderPin(l) \in turned <=> Turns(l, On(l), time)
      BY LinePins
    <3>2. GrinderPin(l) \in grinders
      OBVIOUS
    <3> HIDE DEF ovens, grinders, turned
    <3> QED
      BY <2>1, <3>1, <3>2
  <2> HIDE DEF ovens, grinders, turned
  <2>4. ASSUME NEW l \in Line
        PROVE  /\ \A f \in {Oven(l), Grinder(l)} : userData'[f] = userData[f]
               /\ On(l)' \/ l \in stopped' <=> On(l)
    <3>1. \A f \in {Oven(l), Grinder(l)} : userData'[f] = userData[f]
      <4> SUFFICES ASSUME NEW f \in {Oven(l), Grinder(l)} PROVE userData'[f] = userData[f]
        OBVIOUS
      <4>1. f \in Field /\ \A k \in Line : Kg(k) # f
        BY Fields
      <4>2. \A k \in Line : f \notin Located(SwitchAddress[k] - UserBegin)
        BY Fields
      <4> QED
        BY <2>1, <4>1, <4>2, Zenon
    <3>2. CASE Reached(l)
      BY <2>1, <3>1, <3>2 DEF Reached
    <3>3. CASE ~Reached(l)
      <4>1. Switch(l) \in Field /\ \A k \in Line : Kg(k) # Switch(l)
        BY Fields
      <4>2. \A k \in Line : Reached(k) => Switch(l) \notin Located(SwitchAddress[k] - UserBegin)
        BY <3>3, Fields
      <4>3. userData'[Switch(l)] = userData[Switch(l)]
        BY <2>1, <4>1, <4>2, Zenon
      <4> QED
        BY <2>1, <3>1, <3>3, <4>3 DEF On
    <3> QED
      BY <3>2, <3>3
  <2>5. ASSUME NEW l \in Line PROVE Follows(l, time)'
    <3>1. Heat(l)' = Heat(l)
      BY <2>4 DEF Heat, Ones, Mask
    <3>2. On(l) /\ Low(userData[Grinder(l)]) >= Levels => Turns(l, On(l), time)
      BY FullDuty, Fields DEF Turns, TypeOK, PlantTypeOK
    <3> QED
      BY <2>2, <2>3, <2>4, <3>1, <3>2 DEF Follows, Turns
  <2> QED
    BY <2>5 DEF PinsFollow
<1>5. TakeReports \/ ServeNothing \/ Read \/ Written => turn' # "pduh"
  BY CoilServed DEF TakeReports, ServeNothing, Read, Written, ServeRead, ServeRegister, Served
<1>6. ASSUME NEW fallen, NEW again, Counters(fallen, again) PROVE turn' # "pduh" \/ ~running'
  BY <1>6 DEF Counters, loopVars
<1> QED
  BY <1>1, <1>2, <1>3, <1>4, <1>5, <1>6, Steps

LEMMA PlantInvStep == PlantInv /\ [Next]_vars => PlantInv'
BY TypeStep, LagStep, ArmedStep, RequestsStep, TablesStep, PinsStep DEF PlantInv

-----------------------------------------------------------------------------
(* The theorems.                                                           *)

\* The inductive invariant of the plant and its operator.
THEOREM PlantInvariant == Spec => []PlantInv
BY PlantInvInit, PlantInvStep, PTL DEF Spec

\* Words stay words, whatever is counted, weighed or typed in.
THEOREM TypeCorrect == Spec => []TypeOK
<1>1. PlantInv => TypeOK
  BY DEF PlantInv
<1> QED
  BY <1>1, PlantInvariant, PTL

\* No count slips by the top of its line, unless two come in one turn.
THEOREM LinesStopAtTop == Spec => []StopsAtTop
<1>1. PlantInv => StopsAtTop
  BY DEF PlantInv, Armed, StopsAtTop
<1> QED
  BY <1>1, PlantInvariant, PTL

\* Neither line disturbs the pins of the other, whatever the master wrote to them,
\* and a grinder at full duty never pauses.
THEOREM PinsFollowRegisters == Spec => []PinsFollow
<1>1. PlantInv => PinsFollow
  BY DEF PlantInv
<1> QED
  BY <1>1, PlantInvariant, PTL

\* A toggle asks for the opposite of the coil in the slave, but for one that others
\* have changed since it was shown: no write of one's own is forgotten, and nobody
\* changes any coil but the movable ones.
THEOREM TablesAreFresh == Spec => []TogglesTruth
<1>1. PlantInv => TogglesTruth
  <2>1. SUFFICES ASSUME PlantInv, tui = "write", request.op = "toggle", ~(request.addr \in moved)
                 PROVE  TurnsOver
    BY DEF PlantInv, Tables, TogglesTruth
  <2>2. readOp = READ_COILS /\ request.value = IF request.addr \in coils THEN 0 ELSE 1
    BY <2>1 DEF PlantInv, Requests
  <2>3. READ_COILS \in known /\ coils \ moved = CoilsOn \ moved
    BY <2>1 DEF PlantInv, Tables, AskedNext
  <2> QED
    BY <2>1, <2>2, <2>3 DEF TurnsOver
<1> QED
  BY <1>1, PlantInvariant, PTL

\* Once a write has been answered, the next table read shows it.
THEOREM OwnWritesAreSeen == Spec => []OwnWritesSeen
<1>1. PlantInv => OwnWritesSeen
  BY DEF PlantInv, Tables, AskedNext, OwnWritesSeen
<1> QED
  BY <1>1, PlantInvariant, PTL
=============================================================================
