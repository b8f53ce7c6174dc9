------------------------------ MODULE MCPanel ------------------------------
(***************************************************************************)
(* The parts of the panel's service that share no state, checked side by   *)
(* side: a behaviour is one of the live updates, of signing in, of the     *)
(* limiter of hashes, of the credentials, of a paged list or of imports.   *)
(***************************************************************************)
EXTENDS LiveUpdates, Accounts, HashLimiter, Credentials, Paging, Imports

VARIABLE part

panelVars == <<part, liveVars, accountVars, hashVars, credentialVars, pagingVars, importVars>>

Init ==
  /\ part \in {"live", "accounts", "hashes", "credentials", "paging", "imports"}
  /\ LiveInit /\ AccountsInit /\ HashInit /\ CredentialsInit /\ PagingInit /\ ImportsInit

LiveStep ==
  /\ part = "live" /\ LiveNext
  /\ UNCHANGED <<part, accountVars, hashVars, credentialVars, pagingVars, importVars>>

AccountStep ==
  /\ part = "accounts" /\ AccountsNext
  /\ UNCHANGED <<part, liveVars, hashVars, credentialVars, pagingVars, importVars>>

HashingStep ==
  /\ part = "hashes" /\ HashNext
  /\ UNCHANGED <<part, liveVars, accountVars, credentialVars, pagingVars, importVars>>

CredentialStep ==
  /\ part = "credentials" /\ CredentialsNext
  /\ UNCHANGED <<part, liveVars, accountVars, hashVars, pagingVars, importVars>>

PagingStep ==
  /\ part = "paging" /\ PagingNext
  /\ UNCHANGED <<part, liveVars, accountVars, hashVars, credentialVars, importVars>>

ImportStep ==
  /\ part = "imports" /\ ImportsNext
  /\ UNCHANGED <<part, liveVars, accountVars, hashVars, credentialVars, pagingVars>>

Next == LiveStep \/ AccountStep \/ HashingStep \/ CredentialStep \/ PagingStep \/ ImportStep

Spec == Init /\ [][Next]_panelVars
=============================================================================
