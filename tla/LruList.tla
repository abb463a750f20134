------------------------------ MODULE LruList ------------------------------
(***************************************************************************)
(* One LRU list of src/ocf_lru.c: the intrusive doubly linked list threaded *)
(* through the per-cache-line records (struct ocf_lru_meta: hot, prev,      *)
(* next) with its header (struct ocf_lru_list: head, tail, num_nodes,       *)
(* num_hot, last_hot, track_hot), and the three primitives add_lru_head,    *)
(* remove_lru_list and balance_lru_list.                                    *)
(*                                                                         *)
(* The primitives are pure operators from a pair [lru, list] to the pair   *)
(* after the call, so that the cache-wide module OcfLru composes them      *)
(* exactly as ocf_lru_move, ocf_lru_hot_cline and the iterators do.  The    *)
(* spec at the bottom runs one list under every public operation that      *)
(* touches a single list, with the LRU list lock held across the whole     *)
(* operation as in the code.                                               *)
(***************************************************************************)
EXTENDS Naturals, Sequences, FiniteSets, Functions

CONSTANTS
  Clines,    \* cache line ids, the domain of the LRU metadata array
  END,       \* end_marker, (ocf_cache_line_t)-1: terminates a list
  RATIO,     \* OCF_LRU_HOT_RATIO: the list keeps num_nodes / RATIO hot lines
  TrackHot   \* list->track_hot: FALSE only for the freelist lists

ASSUME /\ Clines \subseteq Nat /\ Clines # {}
       /\ END \notin Clines
       /\ RATIO \in Nat \ {0, 1}
       /\ TrackHot \in BOOLEAN

Link == Clines \cup {END}

NodeRec == [hot : BOOLEAN, prev : Link, next : Link]
ListRec == [head : Link, tail : Link, num_nodes : Nat, num_hot : Nat,
            last_hot : Link, track_hot : BOOLEAN]

\* ocf_lru_init_cline: a line that is on no list.
UnlinkedNode == [hot |-> FALSE, prev |-> END, next |-> END]

\* _lru_init: an empty list header.
EmptyList(track) == [head |-> END, tail |-> END, num_nodes |-> 0, num_hot |-> 0,
                     last_hot |-> END, track_hot |-> track]

(***************************************************************************)
(* Definitions named ...No..., ...Stale... or ...Always... are mutations:  *)
(* plausible slips in the C code the definition after them models, used   *)
(* to show that the properties can fail.                                   *)
(***************************************************************************)
\* add_lru_head without "node->prev = collision_index" on the old head.
AddLruHeadNoBackLink(s, c) ==
  LET L == s.list  M == s.lru IN
  IF L.num_nodes = 0
  THEN [lru |-> [M EXCEPT ![c] = UnlinkedNode],
        list |-> [L EXCEPT !.head = c, !.tail = c, !.num_nodes = 1]]
  ELSE [lru |-> [M EXCEPT ![c] = [hot |-> L.track_hot, prev |-> END, next |-> L.head]],
        list |-> [L EXCEPT !.head = c, !.num_nodes = @ + 1,
                           !.num_hot = IF L.track_hot THEN @ + 1 ELSE @,
                           !.last_hot = IF L.track_hot /\ ~M[L.head].hot THEN c ELSE @]]

(***************************************************************************)
(* add_lru_head.  The new node is cold on an empty list; on a non-empty     *)
(* tracked list it becomes hot, and becomes last_hot when the old head was *)
(* cold (no hot run yet).                                                   *)
(***************************************************************************)
AddLruHead(s, c) ==
  LET L == s.list
      M == s.lru
  IN IF L.num_nodes = 0
     THEN [lru  |-> [M EXCEPT ![c] = UnlinkedNode],
           list |-> [L EXCEPT !.head = c, !.tail = c, !.num_nodes = 1]]
     ELSE LET h == L.head IN
          [lru  |-> [M EXCEPT ![c] = [hot |-> L.track_hot, prev |-> END, next |-> h],
                              ![h].prev = c],
           list |-> [L EXCEPT !.head = c,
                              !.num_nodes = @ + 1,
                              !.num_hot = IF L.track_hot THEN @ + 1 ELSE @,
                              !.last_hot = IF L.track_hot /\ ~M[h].hot THEN c ELSE @]]

\* remove_lru_list whose interior case, like the tail case, leaves
\* last_hot alone (mutation).
RemoveLruListStaleLastHot(s, c) ==
  LET L == s.list  M == s.lru  nxt == M[c].next  prv == M[c].prev
      L1 == [L EXCEPT !.num_hot = IF M[c].hot THEN @ - 1 ELSE @, !.num_nodes = @ - 1]
      M1 == [M EXCEPT ![c] = UnlinkedNode]
  IN CASE L.head = c /\ L.tail = c ->
            [lru |-> M1, list |-> [L1 EXCEPT !.head = END, !.tail = END, !.last_hot = END]]
       [] L.head = c ->
            [lru |-> [M1 EXCEPT ![nxt].prev = END],
             list |-> [L1 EXCEPT !.head = nxt,
                                 !.last_hot = IF L.last_hot = c THEN END ELSE @]]
       [] L.tail = c -> [lru |-> [M1 EXCEPT ![prv].next = END], list |-> [L1 EXCEPT !.tail = prv]]
       [] OTHER -> [lru |-> [M1 EXCEPT ![prv].next = nxt, ![nxt].prev = prv], list |-> L1]

(***************************************************************************)
(* remove_lru_list: the four cases sole node / head / tail / interior.     *)
(* Only the head and interior cases move last_hot; the tail case leaves it *)
(* alone, which is right only while the tail is never the last hot node.   *)
(***************************************************************************)
RemoveLruList(s, c) ==
  LET L == s.list
      M == s.lru
      isHead == L.head = c
      isTail == L.tail = c
      nxt == M[c].next
      prv == M[c].prev
      L1 == [L EXCEPT !.num_hot = IF M[c].hot THEN @ - 1 ELSE @,
                      !.num_nodes = @ - 1]
      M1 == [M EXCEPT ![c] = UnlinkedNode]
  IN CASE isHead /\ isTail ->
            [lru  |-> M1,
             list |-> [L1 EXCEPT !.head = END, !.tail = END, !.last_hot = END]]
       [] isHead ->
            [lru  |-> [M1 EXCEPT ![nxt].prev = END],
             list |-> [L1 EXCEPT !.head = nxt,
                                 !.last_hot = IF L.last_hot = c THEN END ELSE @]]
       [] isTail ->
            [lru  |-> [M1 EXCEPT ![prv].next = END],
             list |-> [L1 EXCEPT !.tail = prv]]
       [] OTHER ->
            [lru  |-> [M1 EXCEPT ![prv].next = nxt, ![nxt].prev = prv],
             list |-> [L1 EXCEPT !.last_hot = IF L.last_hot = c THEN prv ELSE @]]

(***************************************************************************)
(* balance_lru_list: one step of the hot boundary toward num_nodes/RATIO.  *)
(***************************************************************************)
BalanceLruList(s) ==
  LET L == s.list
      M == s.lru
      target == L.num_nodes \div RATIO
      lh == L.last_hot
  IN CASE ~L.track_hot \/ target = L.num_hot -> s
       [] L.num_hot = 0 ->
            [lru  |-> [M EXCEPT ![L.head].hot = TRUE],
             list |-> [L EXCEPT !.last_hot = L.head, !.num_hot = 1]]
       [] target > L.num_hot ->
            [lru  |-> [M EXCEPT ![M[lh].next].hot = TRUE],
             list |-> [L EXCEPT !.num_hot = @ + 1, !.last_hot = M[lh].next]]
       [] lh = L.head ->
            [lru  |-> [M EXCEPT ![lh].hot = FALSE],
             list |-> [L EXCEPT !.num_hot = 0, !.last_hot = END]]
       [] OTHER ->
            [lru  |-> [M EXCEPT ![lh].hot = FALSE],
             list |-> [L EXCEPT !.num_hot = @ - 1, !.last_hot = M[lh].prev]]

(***************************************************************************)
(* Reading a list: the nodes met following next from head (or prev from   *)
(* tail).  The walk is cut after |Clines|+1 nodes so that a cycle shows up *)
(* as a walk longer than any list can be.                                   *)
(***************************************************************************)
RECURSIVE Follow(_, _, _, _)
Follow(M, c, dir, fuel) ==
  IF c = END \/ fuel = 0 THEN <<>>
  ELSE <<c>> \o Follow(M, M[c][dir], dir, fuel - 1)

Forward(s)  == Follow(s.lru, s.list.head, "next", Cardinality(Clines) + 1)
Backward(s) == Follow(s.lru, s.list.tail, "prev", Cardinality(Clines) + 1)

Members(s) == Range(Forward(s))

\* The list is a proper doubly linked list of num_nodes distinct lines.
WellLinked(s) ==
  LET f == Forward(s) IN
  /\ Len(f) = s.list.num_nodes
  /\ IsInjective(f)
  /\ Backward(s) = [i \in 1..Len(f) |-> f[Len(f) + 1 - i]]

\* The hot lines are exactly the first num_hot lines from the head and
\* last_hot is the last of them (END when there is none).
HotPrefix(s) ==
  LET f == Forward(s) IN
  /\ s.list.num_hot <= Len(f)
  /\ \A i \in 1..Len(f) : s.lru[f[i]].hot <=> i <= s.list.num_hot
  /\ s.list.last_hot = IF s.list.num_hot = 0 THEN END ELSE f[s.list.num_hot]

-----------------------------------------------------------------------------
(***************************************************************************)
(* One list under the operations of ocf_lru.c that touch a single list.    *)
(***************************************************************************)
VARIABLES lru, list

vars == <<lru, list>>
st == [lru |-> lru, list |-> list]

Apply(s) == lru' = s.lru /\ list' = s.list

Init == /\ lru = [c \in Clines |-> UnlinkedNode]
        /\ list = EmptyList(TrackHot)

\* ocf_lru_populate / destination side of ocf_lru_move: add at head, balance.
Insert(c) ==
  /\ c \notin Members(st)
  /\ Apply(BalanceLruList(AddLruHead(st, c)))

\* Source side of ocf_lru_move: remove, balance.
Delete(c) ==
  /\ c \in Members(st)
  /\ Apply(BalanceLruList(RemoveLruList(st, c)))

\* ocf_lru_hot_cline: a cold line is unlinked when linked, re-added at the
\* head, and the list balanced once.
HotCline(c) ==
  LET linked == lru[c].next # END \/ lru[c].prev # END
                \/ list.head = c \/ list.tail = c
      s1 == IF linked THEN RemoveLruList(st, c) ELSE st
  IN /\ ~lru[c].hot
     /\ Apply(BalanceLruList(AddLruHead(s1, c)))

\* lru_iter_eviction_next when the victim stays in its partition: the
\* victim (any line the tail walk reaches) moves to the head, one balance.
EvictRotate(c) ==
  /\ c \in Members(st)
  /\ Apply(BalanceLruList(AddLruHead(RemoveLruList(st, c), c)))

Next == \E c \in Clines : Insert(c) \/ Delete(c) \/ HotCline(c) \/ EvictRotate(c)

Spec == Init /\ [][Next]_vars

-----------------------------------------------------------------------------
TypeOK == /\ lru \in [Clines -> NodeRec]
          /\ list \in ListRec

\* After every operation the list is a proper doubly linked list whose
\* num_nodes counts its nodes, whatever order of add_lru_head,
\* remove_lru_list and balance_lru_list calls produced it, and a line on
\* no list is fully unlinked (ocf_lru_hot_cline relies on that test).
ListWellFormed ==
  /\ WellLinked(st)
  /\ \A c \in Clines \ Members(st) : lru[c] = UnlinkedNode

\* The hot lines form a run at the head ending at last_hot, and on a
\* tracked list there are exactly num_nodes / RATIO of them after every
\* operation (each operation ends with one balance_lru_list step).
HotBalanced ==
  /\ HotPrefix(st)
  /\ list.num_hot = IF list.track_hot THEN list.num_nodes \div RATIO ELSE 0
=============================================================================
