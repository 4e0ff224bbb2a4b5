------------------------------- MODULE MCSlave -------------------------------
(***************************************************************************)
(* Ports of two pins, so six pins and counters and two channels; for the   *)
(* violations ports of eight, as in the code.                              *)
(***************************************************************************)
EXTENDS Slave

Req(fn, addr, count, data) ==
    [fn |-> fn, addr |-> addr, count |-> count, data |-> data, formed |-> TRUE]
WriteCoil(a, v) == Req("write_coil", a, 1, <<v>>)
WriteCoils(a, s) == Req("write_coils", a, Len(s), s)
WriteRegisters(a, s) == Req("write_registers", a, Len(s), s)

\* First coil of each record.
IOD == FirstIOD
IOM == 12 * Bits
EIP == 15 * Bits
EC  == 18 * Bits
PI  == 21 * Bits
PO  == 24 * Bits

MCTimerPin(t) == IF t = "A" THEN 1 ELSE 5
RealTimerPin(t) == IF t = "A" THEN 3 ELSE 19    \* PB3, PD3

\* Pin 1 and the timer that drives it.
PinRequests ==
    {WriteCoil(a + 1, TRUE) : a \in {IOD, EIP, PO}} \cup {WriteCoil(IOD + 1, FALSE)}
    \cup {Req("write_register", TimerA, 1, <<8192>>)}

ChannelRequests ==
    {WriteCoils(IOM + 2, <<a, b>>) : a \in BOOLEAN, b \in BOOLEAN} \ {WriteCoils(IOM + 2, <<FALSE, TRUE>>)}

CounterRequests ==
    {WriteCoil(EC, TRUE), WriteCoils(EC, <<FALSE, TRUE, TRUE>>),
     WriteRegisters(FirstCounter, <<1, 1, 1>>)}

Commands == {WriteCoil(a, TRUE) : a \in {SaveAddress, LoadAddress}}

\* The range ends past the last address and wraps to a small one; the record of
\* the first coil is cut to that of EC.
Wrapped == LET addr == RegistryMod * Bits + EC + 3 * Bits - 1
           IN  WriteCoils(addr, [k \in 1 .. AddressMod + 1 - addr |-> TRUE])

\* Writes that stop half way, and requests that are refused.
Others ==
    {WriteCoils(PI - 1, <<FALSE, TRUE>>), WriteCoil(RunAddress, FALSE), Wrapped,
     Req("write_register", TimerB, 1, <<4096>>),
     Req("write_register", 0, 1, <<1>>), Req("write_register", UserBegin, 1, <<1>>),
     Req("read_coils", 0, 4, <<>>), Req("read_registers", UserBegin, 2, <<>>),
     [WriteCoil(EC, TRUE) EXCEPT !.formed = FALSE], Req("read_fifo", 0, 0, <<>>)}

MCRequests == PinRequests \cup ChannelRequests \cup CounterRequests \cup Commands \cup Others

\* An output, a channel, two pull-ups and a counter.
MCSaved == {{a - IOD : a \in {IOD + 2, IOM + 2, EIP + 1, EIP + 4, EC + 3}}}

\* The first counter of PORTC; those of PORTB, off, are loaded before it.
NinthCounter == {{EC + 8 - IOD}}
=============================================================================
