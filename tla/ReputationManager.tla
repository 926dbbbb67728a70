-------------------------- MODULE ReputationManager --------------------------
(***************************************************************************)
(* ReputationManager.sol: which loans of an account were ever late or in   *)
(* default, and which are so now.  Marks are computed lazily, whenever the *)
(* account's reputation is read or a payment is made.                      *)
(***************************************************************************)
EXTENDS LendNestTypes

VARIABLE marks  \* the four mappings from accounts to sets of bids

MarkKinds == {"Good", "Delinquent", "Default"}

MarksType ==
    [delinquencies : [Accounts -> SUBSET Bids], defaults : [Accounts -> SUBSET Bids],
     currentDelinquencies : [Accounts -> SUBSET Bids], currentDefaults : [Accounts -> SUBSET Bids]]

RMTypeOK == marks \in MarksType

RMInit ==
    LET none == [acct \in Accounts |-> {}]
    IN  marks = [delinquencies |-> none, defaults |-> none,
                 currentDelinquencies |-> none, currentDefaults |-> none]

\* Mutant of ApplyReputation: a default is current but not part of the history.
ApplyCurrentOnly(mk, acct, defaulted, late) ==
    [delinquencies |-> [mk.delinquencies EXCEPT ![acct] = @ \cup late],
     defaults |-> mk.defaults,
     currentDelinquencies |->
        [mk.currentDelinquencies EXCEPT ![acct] = (@ \ defaulted) \cup late],
     currentDefaults |-> [mk.currentDefaults EXCEPT ![acct] = @ \cup defaulted]]

\* _applyReputation for the bids found in default and those found late.  A bid
\* in default loses its current delinquency; nothing removes a current default.
ApplyReputation(mk, acct, defaulted, late) ==
    [delinquencies |-> [mk.delinquencies EXCEPT ![acct] = @ \cup late],
     defaults |-> [mk.defaults EXCEPT ![acct] = @ \cup defaulted],
     currentDelinquencies |->
        [mk.currentDelinquencies EXCEPT ![acct] = (@ \ defaulted) \cup late],
     currentDefaults |-> [mk.currentDefaults EXCEPT ![acct] = @ \cup defaulted]]

\* The same for a single bid whose mark is known.
ApplyMark(mk, acct, b, mark) ==
    ApplyReputation(mk, acct, IF mark = "Default" THEN {b} ELSE {},
                              IF mark = "Delinquent" THEN {b} ELSE {})
=============================================================================
