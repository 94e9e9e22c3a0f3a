---------------------------- MODULE SfeRuleTable ----------------------------
(***************************************************************************)
(* What the forwarding engine promises to the connection managers, without *)
(* its objects, lists and locks: a table with at most one rule per         *)
(* original tuple, traffic counted per rule and direction, and sync        *)
(* messages that carry those counts out, each count in one message.        *)
(*                                                                         *)
(* A context that removes a rule carries its last message, and the         *)
(* periodic sync carries one message at a time.  A message is delivered    *)
(* some time after it was made; in between the rule can be created again.  *)
(***************************************************************************)
EXTENDS Naturals

CONSTANTS Tuples, Sics, Cpus, None

Dirs    == {"original", "reply"}
Zero    == [d \in Dirs |-> 0]
Timer   == "timer"
Carrier == Cpus \cup {Timer}

VARIABLES
    rules,      \* the create request in force for each tuple, or None
    count,      \* packets forwarded by the rule since its last message
    carried     \* the message each carrier is about to deliver

vars == <<rules, count, carried>>

Init ==
    /\ rules = [t \in Tuples |-> None]
    /\ count = [t \in Tuples |-> Zero]
    /\ carried = [p \in Carrier |-> None]

Create(s) ==
    /\ rules[s.tuple] = None
    /\ rules' = [rules EXCEPT ![s.tuple] = s]
    /\ UNCHANGED <<count, carried>>

Forward(t, d) ==
    /\ rules[t] # None
    /\ count' = [count EXCEPT ![t][d] = @ + 1]
    /\ UNCHANGED <<rules, carried>>

\* The counts leave the table with the message.
Carry(p, t) ==
    /\ rules[t] # None
    /\ carried[p] = None
    /\ carried' = [carried EXCEPT ![p] = [tuple |-> t, count |-> count[t]]]
    /\ count' = [count EXCEPT ![t] = Zero]

Remove(p, t) ==
    /\ Carry(p, t)
    /\ rules' = [rules EXCEPT ![t] = None]

Collect(t) ==
    /\ Carry(Timer, t)
    /\ UNCHANGED rules

\* To the callback, or to nobody if none is registered.
Deliver(p) ==
    /\ carried[p] # None
    /\ carried' = [carried EXCEPT ![p] = None]
    /\ UNCHANGED <<rules, count>>

Next ==
    \/ \E s \in Sics : Create(s)
    \/ \E t \in Tuples, d \in Dirs : Forward(t, d)
    \/ \E p \in Cpus, t \in Tuples : Remove(p, t)
    \/ \E t \in Tuples : Collect(t)
    \/ \E p \in Carrier : Deliver(p)

Spec == Init /\ [][Next]_vars
=============================================================================
