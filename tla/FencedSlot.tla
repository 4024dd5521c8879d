----------------------------- MODULE FencedSlot -----------------------------
(***************************************************************************)
(* What the worker slot promises, whoever implements it.  The slot belongs *)
(* to at most one client at a time, under a generation of that client that *)
(* was never granted before.  Only the generation holding the slot adds to *)
(* the ledger, one entry at a time; once it has lost the slot it is fenced *)
(* off for good.  Entries are never changed, and they disappear only with  *)
(* everything else of a client that does not hold the slot.                *)
(***************************************************************************)
EXTENDS Naturals

CONSTANTS Client, None

VARIABLES
  holder,   \* the client in the slot, or None
  grant,    \* the generation it holds it under, 0 when the slot is free
  gen,      \* per client, the latest generation granted or revoked
  ledger    \* the entries committed so far

vars == <<holder, grant, gen, ledger>>

Init ==
  /\ holder = None
  /\ grant = 0
  /\ gen = [x \in Client |-> 0]
  /\ ledger = {}

(* Generations are only ever raised.                                       *)
GenRaised == \A x \in Client : gen[x] <= gen'[x]

Free == holder' = None /\ grant' = 0

(* The slot goes to x, free or taken from another holder in the same step. *)
Grant(x) ==
  /\ GenRaised
  /\ gen[x] < gen'[x]
  /\ holder' = x /\ grant' = gen'[x]
  /\ UNCHANGED ledger

(* The holder leaves or is made to; its generation may be revoked too.     *)
Release ==
  /\ holder # None
  /\ Free
  /\ GenRaised
  /\ UNCHANGED ledger

(* A generation of a client out of the slot is revoked.                    *)
Revoke(x) ==
  /\ holder # x
  /\ GenRaised
  /\ \A y \in Client \ {x} : gen'[y] = gen[y]
  /\ UNCHANGED <<holder, grant, ledger>>

(* The holder adds one entry, and may leave with the same step.            *)
Append ==
  /\ holder # None
  /\ \E new \in ledger' : /\ new.client = holder /\ new.gen = grant
                          /\ ledger' = ledger \cup {new}
  /\ \/ UNCHANGED <<holder, grant, gen>>
     \/ Free /\ GenRaised

Purge(x) ==
  /\ holder # x
  /\ ledger' = {e \in ledger : e.client # x}
  /\ UNCHANGED <<holder, grant, gen>>

Next ==
  \/ Release \/ Append
  \/ \E x \in Client : Grant(x) \/ Revoke(x) \/ Purge(x)

Spec == Init /\ [][Next]_vars
=============================================================================
