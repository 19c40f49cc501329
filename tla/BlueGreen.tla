------------------------------ MODULE BlueGreen ------------------------------
(***************************************************************************)
(* What modules/release promises about the traffic of a service, with      *)
(* neither slots, jobs, ledger nor workers: one release serves and at most *)
(* one other stands by.  Only the one that stands by is ever worked on.    *)
(* Traffic moves by exchanging the two, when the other is ready and is not *)
(* kept back by the one that serves; it then finds the way back ready.     *)
(* From the moment a fenced move is asked for until it is recorded nothing *)
(* else happens, and it moves the traffic once.                            *)
(***************************************************************************)
EXTENDS Integers

CONSTANTS Release, None, Controlled, Blocking

VARIABLES
    live,   \* the release with the traffic
    spare,  \* the release that stands by
    able,   \* that one is ready
    move    \* a fenced move: "none", "asked", "moved"

bvars == <<live, spare, able, move>>

AInit == live = None /\ spare = None /\ able = FALSE /\ move = "none"

Free == move = "none"

(* A release may refuse that an older one follows it.                      *)
KeptBack == live # None /\ spare < live /\ live \in Blocking

(* A release comes to stand by and has to become ready first.              *)
Deploy(r) ==
    /\ Free /\ r # live
    /\ spare' = r /\ able' = FALSE
    /\ UNCHANGED <<live, move>>

Judge ==
    /\ Free /\ spare # None
    /\ able' \in BOOLEAN
    /\ UNCHANGED <<live, spare, move>>

Clear ==
    /\ Free
    /\ spare' = None /\ able' = FALSE
    /\ UNCHANGED <<live, move>>

Exchange ==
    /\ able /\ ~KeptBack
    /\ live' = spare /\ spare' = live
    /\ able' = (live # None)

Fenced == {live, spare} \cap Controlled # {}

Switch == Free /\ ~Fenced /\ Exchange /\ UNCHANGED move

Ask ==
    /\ Free /\ able /\ ~KeptBack /\ spare \in Controlled
    /\ move' = "asked"
    /\ UNCHANGED <<live, spare, able>>

Move == move = "asked" /\ Exchange /\ move' = "moved"

Record == move = "moved" /\ move' = "none" /\ UNCHANGED <<live, spare, able>>

ANext ==
    \/ \E r \in Release : Deploy(r)
    \/ Judge \/ Clear \/ Switch \/ Ask \/ Move \/ Record

ASpec == AInit /\ [][ANext]_bvars
=============================================================================
