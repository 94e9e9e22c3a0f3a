----------------------------- MODULE SfeLists -----------------------------
(***************************************************************************)
(* What the look-up tables and lists of sfe_ipv4.c promise to the code     *)
(* that calls them under si->lock: the connections in the order they were  *)
(* created, the matches that await a sync in the order they got active,    *)
(* and for a packet the newest match of its key.  SfeListLinks implements  *)
(* this with the pointers of the code.                                     *)
(***************************************************************************)
EXTENDS Naturals, SequencesExt

CONSTANTS
    Conns,  \* sfe_ipv4_connection objects
    Keys,   \* what packets are looked up by: a device and a 5-tuple
    KeyOf   \* the key a packet finds each match by

Dirs    == {"original", "reply"}
Matches == Conns \X Dirs

VARIABLES
    all_connections,
    active_list

vars == <<all_connections, active_list>>

Init ==
    /\ all_connections = <<>>
    /\ active_list = <<>>

Without(list, c) == RemoveFirst(RemoveFirst(list, <<c, "reply">>), <<c, "original">>)

CreateRule(c) ==
    /\ ~Contains(all_connections, c)
    /\ all_connections' = Append(all_connections, c)
    /\ UNCHANGED active_list

DestroyRule(c) ==
    /\ Contains(all_connections, c)
    /\ all_connections' = RemoveFirst(all_connections, c)
    /\ active_list' = Without(active_list, c)

\* A later connection is newer, and in a connection the reply match is.
Newest(k) ==
    LET found == {m \in Matches : KeyOf[m] = k /\ Contains(all_connections, m[1])}
        Born(m) == SelectInSeq(all_connections, LAMBDA c : c = m[1])
    IN  {m \in found : \A n \in found : \/ Born(n) < Born(m)
                                        \/ n = m
                                        \/ n = <<m[1], "original">>}

Forward(m) ==
    /\ active_list' = IF Contains(active_list, m) THEN active_list
                                                 ELSE Append(active_list, m)
    /\ UNCHANGED all_connections

Recv(k) == \E m \in Newest(k) : Forward(m) \/ DestroyRule(m[1])

SyncHead ==
    /\ active_list # <<>>
    /\ active_list' = Without(active_list, Head(active_list)[1])
    /\ UNCHANGED all_connections

Next ==
    \/ \E c \in Conns : CreateRule(c) \/ DestroyRule(c)
    \/ \E k \in Keys : Recv(k)
    \/ SyncHead

Spec == Init /\ [][Next]_vars
=============================================================================
