----------------------------- MODULE MCMiniSoc -----------------------------
(***************************************************************************)
(* Runs of MiniSoc: two byte lanes, one word of BRAM at 0, SDRAM words at  *)
(* 8 and 12, the UART registers above.  12 clears both error flags.    *)
(***************************************************************************)
EXTENDS MiniSoc

Load(a)     == [addr |-> a, wdata |-> ZeroData, wstrb |-> {}]
StoreOf(a, b, s) == [addr |-> a, wdata |-> [l \in Lane |-> b], wstrb |-> s]

UartAccesses   == {Load(UART_DATA), Load(UART_STATUS), StoreOf(UART_DATA, 12, Lane),
                   StoreOf(UART_STATUS, 12, Lane)}
MemoryAccesses ==
  {Load(0), Load(8), Load(12), StoreOf(0, 12, {1}), StoreOf(8, 12, Lane), StoreOf(8, 0, {0})}
MixedAccesses  ==
  {Load(UART_DATA), StoreOf(UART_DATA, 12, Lane), Load(8), StoreOf(8, 12, Lane), Load(0)}

AllPairs == Accesses \X Accesses
NoPairs  == {}

(* The drivers read the status between two accesses to the data register.  *)
DriverPairs == {p \in AllPairs : p[1] = p[2] => ~IsMmio(p[1].addr)}
=============================================================================
