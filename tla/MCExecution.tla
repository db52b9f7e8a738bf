----------------------------- MODULE MCExecution -----------------------------
(***************************************************************************)
(* A small network for TLC, with two sets of transactions: races beside    *)
(* contracts, and calls of the same contracts over and over, one of which  *)
(* is large.                                                               *)
(***************************************************************************)
EXTENDS Execution

G == <<"tx", 0, 0>>
GenesisContracts == [a \in {"A", "B", "D"} |-> [data |-> Empty, balance |-> 3]]

Pays(outs) ==
  [outs |-> outs, creates |-> FALSE, addr |-> "", value |-> 0, steps |-> << >>, change |-> FALSE]
Calls(addr, value, steps) ==
  [outs |-> <<value>>, creates |-> FALSE, addr |-> addr, value |-> value,
   steps |-> steps, change |-> TRUE]
CallsForAll(addr, value, steps) == [Calls(addr, value, steps) EXCEPT !.change = FALSE]

Creates3 ==
  [outs |-> <<1>>, creates |-> TRUE, addr |-> "C", value |-> 1, steps |-> << >>, change |-> TRUE]

\* A zero says as much as nothing.
SomeFees == << "invoke" :> 2, Empty, "create" :> 2 @@ "send" :> 0, Empty >>
OneEach == [kind \in {"size", "create", "invoke", "send", "storage"} |-> 1]

-----------------------------------------------------------------------------
(***************************************************************************)
(* Conciliums 1 and 3 have contracts.  1 and 5 call A, which calls B.  2   *)
(* and 3, which creates C, race for one output; with what 2 pays 4 calls A *)
(* too, but from a concilium that is not A's, and 6 can not pay for the    *)
(* data.  5 names no receiver of the change.                               *)
(***************************************************************************)
RaceTxns == <<Calls("A", 2, << <<"set">>, <<"delegate", "B", << <<"send", 1>> >> >> >>),
              Pays(<<3, 4>>),
              Creates3,
              Calls("A", 1, << <<"set">> >>),
              CallsForAll("A", 1, << <<"set">>, <<"call", "B", << <<"set">> >> >> >>),
              Calls("A", 1, << <<"set">> >>)>>
RaceInputs == << <<G, 0>>, <<G, 2>>, <<G, 2>>, << <<"tx", 2, 0>>, 0>>, <<G, 1>>, << <<"tx", 2, 0>>, 1>> >>
RaceConciliums == <<1, 2, 3, 3, 1, 1>>

-----------------------------------------------------------------------------
(***************************************************************************)
(* The others are all of concilium 1.  D is large; 7 calls it by way of A, *)
(* 8 calls it and has it send, 9 as well but throws.  10 only pays A, and  *)
(* 11 has D changed and throws.  The node executes 8 itself, too.          *)
(***************************************************************************)
CallTxns == <<Calls("A", 2, << <<"set">>, <<"call", "D", << <<"set">> >> >> >>),
              Calls("D", 1, << <<"set">>, <<"send", 1>> >>),
              Calls("D", 1, << <<"send", 1>>, <<"throw">> >>),
              Calls("A", 1, << >>),
              Calls("A", 1, << <<"call", "D", << <<"set">>, <<"send", 1>> >> >>, <<"throw">> >>)>>

-----------------------------------------------------------------------------
AllTxns == 1..11
MCTxOf == RaceTxns \o CallTxns
MCInputOf == RaceInputs \o [k \in 1..5 |-> <<G, k + 2>>]
MCConciliumOf == RaceConciliums \o [k \in 1..5 |-> 1]
MCCoins == G :> (0 :> 10 @@ 1 :> 10 @@ 2 :> 9 @@ [i \in 3..7 |-> 10])
MCConciliumOfContract == "A" :> 1 @@ "B" :> 1 @@ "C" :> 3 @@ "D" :> 1

\* what comes up together, in how many blocks at most
RacesOrCalls == (1..6 :> 5) @@ (7..11 :> 4)

=============================================================================
