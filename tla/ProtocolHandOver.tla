-------------------------- MODULE ProtocolHandOver --------------------------
(***************************************************************************)
(* What a deployment promises to those who will use the protocol, whatever *)
(* scripts, runs and crashes it took: a contract is built once, from what  *)
(* was built before it; LendNestV2 opens once, with every component;       *)
(* each thing that has an owner goes from the account that deployed it to  *)
(* its final owner and never back; loans can be claimed (LenderManager is  *)
(* LendNestV2's) only once the safe owns LendNestV2; and an upgrade finds  *)
(* the protocol open.                                                      *)
(***************************************************************************)
EXTENDS Naturals

CONSTANTS
    Contracts,
    Components,     \* what LendNestV2 opens with
    Keys,           \* accounts that deploy
    FinalOwner      \* of each thing that is owned

VARIABLES built, wiring, owner, version

vars == <<built, wiring, owner, version>>

Init ==
    /\ built = [c \in Contracts |-> 0]
    /\ wiring = [c \in Contracts |-> << >>]
    /\ owner = [o \in DOMAIN FinalOwner |-> "nobody"]
    /\ version = 0

IsBuilt(args) == \A a \in DOMAIN args : built[a] # 0 /\ args[a] = built[a]

Build(c) ==
    /\ built[c] = 0
    /\ built'[c] # 0 /\ built' = [built EXCEPT ![c] = built'[c]]
    /\ IsBuilt(wiring'[c]) /\ wiring' = [wiring EXCEPT ![c] = wiring'[c]]
    /\ IF c \in DOMAIN FinalOwner \ {"LendNestV2"}
       THEN \E k \in Keys : owner' = [owner EXCEPT ![c] = k]
       ELSE owner' = owner
    /\ UNCHANGED version

\* The proxies' admin comes with the first proxy.
Administer ==
    /\ owner["ProxyAdmin"] = "nobody"
    /\ \E k \in Keys : owner' = [owner EXCEPT !["ProxyAdmin"] = k]
    /\ UNCHANGED <<built, wiring, version>>

Open ==
    /\ version = 0 /\ version' = 1
    /\ \E k \in Keys : owner' = [owner EXCEPT !["LendNestV2"] = k]
    /\ Components \subseteq DOMAIN wiring'["LendNestV2"]
    /\ IsBuilt(wiring'["LendNestV2"])
    /\ wiring' = [wiring EXCEPT !["LendNestV2"] = wiring'["LendNestV2"]]
    /\ UNCHANGED built

Give(c) ==
    /\ owner[c] \in Keys
    /\ owner' = [owner EXCEPT ![c] = FinalOwner[c]]
    /\ c = "LenderManager" => version # 0 /\ owner["LendNestV2"] = FinalOwner["LendNestV2"]
    /\ UNCHANGED <<built, wiring, version>>

Upgrade ==
    /\ version = 1 /\ version' = 9
    /\ owner["ProxyAdmin"] = FinalOwner["ProxyAdmin"]
    /\ UNCHANGED <<built, wiring, owner>>

Next ==
    \/ \E c \in Contracts : Build(c)
    \/ \E c \in DOMAIN FinalOwner : Give(c)
    \/ Administer \/ Open \/ Upgrade

Spec == Init /\ [][Next]_vars
=============================================================================
