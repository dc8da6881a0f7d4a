---------------------------- MODULE MCRequestInputs ----------------------------
(***************************************************************************)
(* Model for TLC: two symbols and one template; with them, in runs of      *)
(* their own, the calls of the API client and the fields of the form.      *)
(***************************************************************************)
EXTENDS RequestInputs, ApiClient, ParameterForm

VARIABLE which

MCComplete ==
  [side |-> "long", lower |-> 40, upper |-> 60, grids |-> 8, leverage |-> 10, margin |-> 20, stop |-> 30,
   mmr |-> 5, slippage |-> 2, maxLoss |-> {10}, strict |-> TRUE, start |-> {1}, end |-> {}]

\* Values that the judges part at.
MCEntries ==
  [side |-> {"long", "short"}, lower |-> {0, 30, 60}, upper |-> {40, 70}, grids |-> {2, 5, 602},
   leverage |-> {0, 1, 251}, margin |-> {0}, stop |-> {0, 40, 80}, mmr |-> {0, 201},
   slippage |-> {-1, 501}, maxLoss |-> {{}, {0}}, strict |-> BOOLEAN,
   start |-> {{}, {2}}, end |-> {{1}, {2}}]

\* A row of a search for a long grid, and one for a short.
MCRows ==
  {[lower |-> 30, upper |-> 70, stop |-> 20, leverage |-> 1, grids |-> 6],
   [lower |-> 50, upper |-> 60, stop |-> 80, leverage |-> 6, grids |-> 10]}

MCInit ==
  /\ which \in {"inputs", "client", "form"}
  /\ Init /\ CallInit /\ FormInit
  /\ storedRequest # None => which = "inputs" /\ storedRequest.fees = storedRequest.symbol
  /\ which # "form" => mobile

MCNext ==
  \/ which = "inputs" /\ Next /\ UNCHANGED <<which, callVars, formVars>>
  \/ which = "client" /\ CallNext /\ UNCHANGED <<which, vars, formVars>>
  \/ which = "form" /\ FormNext /\ UNCHANGED <<which, vars, callVars>>

MCSpec == MCInit /\ [][MCNext]_<<which, vars, callVars, formVars>> /\ Fairness /\ CallFairness

\* Neither the form nor a caller waits for good: see RequestInputs and ApiClient.
WaitsEnd == AnchorLoadingEnds /\ CallsEnd
=============================================================================
