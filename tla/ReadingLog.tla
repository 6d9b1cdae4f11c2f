----------------------------- MODULE ReadingLog -----------------------------
(***************************************************************************)
(* What the listener promises about its data table, without packets,       *)
(* caches, handlers or SQL (server/listenudp.py, store).                   *)
(*                                                                         *)
(* Every reading the server stamps itself goes into a slot.  A slot is     *)
(* claimed by its timestamp, a claim lies at least Window after the claim  *)
(* before it, and a claimed slot is filled at most once.  Readings that    *)
(* carry the station's own timestamp are imported under that timestamp     *)
(* whatever the slots.  A restart forgets the claims, never a row.         *)
(***************************************************************************)
EXTENDS Integers

CONSTANTS
    Device,     \* station ids
    Body,       \* what a reading says
    Time,       \* timestamps, in seconds: a set of natural numbers
    Window,     \* least distance of two claims of one station
    None        \* no claim: not a timestamp

VARIABLES
    rows,       \* the table: records [wid, ts, body]
    claim,      \* claim[d]: the timestamp of d's latest slot, or None
    open        \* the stations whose latest slot is claimed and not yet filled

vars == <<rows, claim, open>>

(* A row replaces the one with the same key: wid names the file, ts the    *)
(* primary key in it.                                                      *)
Put(table, r) == {q \in table : q.wid # r.wid \/ q.ts # r.ts} \cup {r}

Init ==
    /\ rows = {}
    /\ claim = [d \in Device |-> None]
    /\ open = {}

(* A station is given the slot t, well after the slot it had. *)
Claim(d, t) ==
    /\ claim[d] # None => t >= claim[d] + Window
    /\ claim' = [claim EXCEPT ![d] = t]
    /\ open' = open \cup {d}
    /\ UNCHANGED rows

(* The slot is filled: it cannot be filled again. *)
Fill(d, b) ==
    /\ d \in open
    /\ rows' = Put(rows, [wid |-> d, ts |-> claim[d], body |-> b])
    /\ open' = open \ {d}
    /\ UNCHANGED claim

(* The slot stays empty for ever: the reading was lost on its way. *)
Abandon(d) ==
    /\ d \in open
    /\ open' = open \ {d}
    /\ UNCHANGED <<rows, claim>>

(* A reading stamped by the station. *)
Import(d, t, b) ==
    /\ rows' = Put(rows, [wid |-> d, ts |-> t, body |-> b])
    /\ UNCHANGED <<claim, open>>

(* A restart of the process: the table survives, the claims do not. *)
Forget ==
    /\ claim' = [d \in Device |-> None]
    /\ open' = {}
    /\ UNCHANGED rows

Next ==
    \/ \E d \in Device, t \in Time : Claim(d, t)
    \/ \E d \in Device, b \in Body : Fill(d, b)
    \/ \E d \in Device : Abandon(d)
    \/ \E d \in Device, t \in Time, b \in Body : Import(d, t, b)
    \/ Forget

Spec == Init /\ [][Next]_vars
=============================================================================
