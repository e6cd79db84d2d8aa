----------------------------- MODULE LinkedList -----------------------------
(***************************************************************************)
(* The intrusive lists of the kernel: LinkedList, Iter and IterMut of      *)
(* libutil/src/collections/linked_list.rs.                                 *)
(*                                                                         *)
(* A node is in at most one list, and holds the links itself.  The links   *)
(* of a node outside the lists are Gone: its owner may have freed it.  The *)
(* owner of the lists works on them alone; while it iterates over a list   *)
(* it may move the node it was given last, as time_handler and the thread  *)
(* cleaner do.  append, which nothing calls, is not modelled.              *)
(***************************************************************************)
EXTENDS Integers, Sequences, SequencesExt

CONSTANTS List, Node, Nil, Gone

ASSUME ListConstants == Nil \notin Node /\ Gone \notin Node /\ Nil # Gone

VARIABLES lst,         \* the lists: [start, end, len]
          prev, next,  \* the links of the nodes
          it,          \* the iterator: [on, of, start, end, len]
          content,     \* history: what the documentation says is in a list
          seen         \* history: [want, front, back] of the iteration

listVars == <<lst, prev, next, it, content, seen>>

Outside(v) == \A l \in List : v \notin Range(content[l])
Unlinked(f, v) == [f EXCEPT ![v] = Gone]

(***************************************************************************)
(* The operations.  Each says what becomes of lst, prev and next.          *)
(***************************************************************************)

Push(l, v) ==
  LET empty == lst[l].len = 0
      e == lst[l].end
  IN /\ lst' = [lst EXCEPT ![l] = [start |-> IF empty THEN v ELSE @.start, end |-> v, len |-> @.len + 1]]
     /\ next' = IF empty THEN [next EXCEPT ![v] = Nil] ELSE [next EXCEPT ![e] = v, ![v] = Nil]
     /\ prev' = [prev EXCEPT ![v] = IF empty THEN Nil ELSE e]

PushFront(l, v) ==
  LET empty == lst[l].len = 0
      s == lst[l].start
  IN /\ lst' = [lst EXCEPT ![l] = [start |-> v, end |-> IF empty THEN v ELSE @.end, len |-> @.len + 1]]
     /\ prev' = IF empty THEN [prev EXCEPT ![v] = Nil] ELSE [prev EXCEPT ![s] = v, ![v] = Nil]
     /\ next' = [next EXCEPT ![v] = IF empty THEN Nil ELSE s]

(* Mutant: the new last node still points to the one that is gone.         *)
PopKeepsNext(l) ==
  LET out == lst[l].end
  IN /\ lst[l].len > 0
     /\ lst' = [lst EXCEPT ![l].len = @ - 1, ![l].end = IF lst[l].len > 1 THEN prev[out] ELSE @]
     /\ next' = Unlinked(next, out)
     /\ prev' = Unlinked(prev, out)

(* The pops leave start and end of a list alone that becomes empty.        *)
Pop(l) ==
  LET out == lst[l].end
      more == lst[l].len > 1
  IN /\ lst[l].len > 0
     /\ lst' = [lst EXCEPT ![l].len = @ - 1, ![l].end = IF more THEN prev[out] ELSE @]
     /\ next' = Unlinked(IF more THEN [next EXCEPT ![prev[out]] = Nil] ELSE next, out)
     /\ prev' = Unlinked(prev, out)

PopFront(l) ==
  LET out == lst[l].start
      more == lst[l].len > 1
  IN /\ lst[l].len > 0
     /\ lst' = [lst EXCEPT ![l].len = @ - 1, ![l].start = IF more THEN next[out] ELSE @]
     /\ prev' = Unlinked(IF more THEN [prev EXCEPT ![next[out]] = Nil] ELSE prev, out)
     /\ next' = Unlinked(next, out)

InsertBefore(l, v, n) ==
  LET p == prev[n]
  IN /\ lst[l].len # 0
     /\ lst' = [lst EXCEPT ![l].len = @ + 1, ![l].start = IF p = Nil THEN v ELSE @]
     /\ next' = IF p = Nil THEN [next EXCEPT ![v] = n] ELSE [next EXCEPT ![p] = v, ![v] = n]
     /\ prev' = [prev EXCEPT ![v] = p, ![n] = v]

InsertAfter(l, v, n) ==
  LET s == next[n]
  IN /\ lst[l].len # 0
     /\ lst' = [lst EXCEPT ![l].len = @ + 1, ![l].end = IF s = Nil THEN v ELSE @]
     /\ prev' = IF s = Nil THEN [prev EXCEPT ![v] = n] ELSE [prev EXCEPT ![s] = v, ![v] = n]
     /\ next' = [next EXCEPT ![v] = s, ![n] = v]

RemoveNode(l, n) ==
  LET p == prev[n]
      s == next[n]
  IN /\ lst' = [lst EXCEPT ![l] = [start |-> IF p = Nil THEN s ELSE @.start,
                                   end |-> IF s = Nil THEN p ELSE @.end, len |-> @.len - 1]]
     /\ next' = Unlinked(IF p = Nil THEN next ELSE [next EXCEPT ![p] = s], n)
     /\ prev' = Unlinked(IF s = Nil THEN prev ELSE [prev EXCEPT ![s] = p], n)

UpdateNode(l, old, new) ==
  LET p == prev[old]
      s == next[old]
  IN /\ lst' = [lst EXCEPT ![l].start = IF p = Nil THEN new ELSE @, ![l].end = IF s = Nil THEN new ELSE @]
     /\ next' = Unlinked([IF p = Nil THEN next ELSE [next EXCEPT ![p] = new] EXCEPT ![new] = s], old)
     /\ prev' = Unlinked([IF s = Nil THEN prev ELSE [prev EXCEPT ![s] = new] EXCEPT ![new] = p], old)

(* n links from v.                                                         *)
Follow(f, v, n) == LET walk[k \in 0 .. n] == IF k = 0 THEN v ELSE f[walk[k - 1]] IN walk[n]

(* get_node: from the nearer end.                                          *)
GetNode(l, i) ==
  IF i * 2 > lst[l].len THEN Follow(prev, lst[l].end, lst[l].len - i - 1)
  ELSE Follow(next, lst[l].start, i)

Insert(l, i, v) ==
  \/ i = 0 /\ PushFront(l, v)
  \/ i # 0 /\ i = lst[l].len /\ Push(l, v)
  \/ i # 0 /\ i < lst[l].len /\ InsertBefore(l, v, GetNode(l, i))

RemoveIndex(l, i) ==
  \/ i = 0 /\ PopFront(l)
  \/ i # 0 /\ i = lst[l].len - 1 /\ Pop(l)
  \/ i # 0 /\ i < lst[l].len - 1 /\ RemoveNode(l, GetNode(l, i))

(***************************************************************************)
(* The owner of the lists.                                                 *)
(***************************************************************************)

NoIter == [on |-> FALSE, of |-> Nil, start |-> Nil, end |-> Nil, len |-> 0]
NothingSeen == [want |-> <<>>, front |-> <<>>, back |-> <<>>]

(* A call that puts v into l such that it is element i + 1.                *)
Adds(l, v, i) ==
  /\ ~it.on /\ Outside(v)
  /\ content' = [content EXCEPT ![l] = InsertAt(@, i + 1, v)]
  /\ UNCHANGED <<it, seen>>

(* A call that takes element i + 1 out of l.                               *)
Takes(l, i) ==
  /\ ~it.on /\ i < Len(content[l])
  /\ content' = [content EXCEPT ![l] = RemoveAt(@, i + 1)]
  /\ UNCHANGED <<it, seen>>

CallPush(l, v) == Adds(l, v, Len(content[l])) /\ Push(l, v)
CallPushFront(l, v) == Adds(l, v, 0) /\ PushFront(l, v)
CallPop(l) == Takes(l, Len(content[l]) - 1) /\ Pop(l)
CallPopFront(l) == Takes(l, 0) /\ PopFront(l)
CallInsert(l, v) == \E i \in 0 .. Len(content[l]) : Adds(l, v, i) /\ Insert(l, i, v)
CallRemove(l) == \E i \in 0 .. Len(content[l]) - 1 : Takes(l, i) /\ RemoveIndex(l, i)
CallInsertBefore(l, v) ==
  \E i \in DOMAIN content[l] : Adds(l, v, i - 1) /\ InsertBefore(l, v, content[l][i])
CallInsertAfter(l, v) ==
  \E i \in DOMAIN content[l] : Adds(l, v, i) /\ InsertAfter(l, v, content[l][i])
CallRemoveNode(l) ==
  \E i \in DOMAIN content[l] : Takes(l, i - 1) /\ RemoveNode(l, content[l][i])
CallUpdateNode(l, v) ==
  /\ ~it.on /\ Outside(v)
  /\ \E i \in DOMAIN content[l] :
       /\ UpdateNode(l, content[l][i], v)
       /\ content' = [content EXCEPT ![l][i] = v]
  /\ UNCHANGED <<it, seen>>

(* iter() and iter_mut()                                                   *)
IterNew(l) ==
  /\ ~it.on
  /\ it' = [on |-> TRUE, of |-> l, start |-> lst[l].start, end |-> lst[l].end, len |-> lst[l].len]
  /\ seen' = [NothingSeen EXCEPT !.want = content[l]]
  /\ UNCHANGED <<lst, prev, next, content>>

(* Mutant: the end of the iteration is found by the null pointer alone.    *)
IterNextNoCount ==
  /\ it.on /\ it.len > 0 /\ Len(seen.front) <= Len(seen.want)
  /\ it' = [it EXCEPT !.start = IF @ = Nil THEN Nil ELSE next[@]]
  /\ seen' = [seen EXCEPT !.front = Append(@, it.start)]
  /\ UNCHANGED <<lst, prev, next, content>>

(* next and next_back: the link is read before the node is given out.      *)
IterNext ==
  /\ it.on /\ it.len > 0
  /\ it' = [it EXCEPT !.start = next[@], !.len = @ - 1]
  /\ seen' = [seen EXCEPT !.front = Append(@, it.start)]
  /\ UNCHANGED <<lst, prev, next, content>>

IterNextBack ==
  /\ it.on /\ it.len > 0
  /\ it' = [it EXCEPT !.end = prev[@], !.len = @ - 1]
  /\ seen' = [seen EXCEPT !.back = Append(@, it.end)]
  /\ UNCHANGED <<lst, prev, next, content>>

(* The body of the loop takes the node it was given out of the list.       *)
BodyRemoves(v) ==
  /\ it.on
  /\ \/ seen.front # <<>> /\ v = Last(seen.front)
     \/ seen.back # <<>> /\ v = Last(seen.back)
  /\ \E i \in DOMAIN content[it.of] :
       /\ content[it.of][i] = v
       /\ content' = [content EXCEPT ![it.of] = RemoveAt(@, i)]
  /\ RemoveNode(it.of, v)
  /\ UNCHANGED <<it, seen>>

(* And puts it at the end of another list.                                 *)
BodyPushes(v, l) ==
  /\ it.on /\ Outside(v) /\ l # it.of
  /\ v \in Range(seen.front) \cup Range(seen.back)
  /\ Push(l, v)
  /\ content' = [content EXCEPT ![l] = Append(@, v)]
  /\ UNCHANGED <<it, seen>>

IterDone ==
  /\ it.on /\ it.len = 0
  /\ it' = NoIter /\ seen' = NothingSeen
  /\ UNCHANGED <<lst, prev, next, content>>

ListInit ==
  /\ lst = [l \in List |-> [start |-> Nil, end |-> Nil, len |-> 0]]
  /\ prev = [v \in Node |-> Gone] /\ next = [v \in Node |-> Gone]
  /\ it = NoIter /\ seen = NothingSeen
  /\ content = [l \in List |-> <<>>]

ListNext ==
  \/ IterNext \/ IterNextBack \/ IterDone
  \/ \E l \in List : CallPop(l) \/ CallPopFront(l) \/ CallRemove(l) \/ CallRemoveNode(l) \/ IterNew(l)
  \/ \E l \in List, v \in Node : \/ CallPush(l, v) \/ CallPushFront(l, v) \/ CallInsert(l, v)
                                 \/ CallInsertBefore(l, v) \/ CallInsertAfter(l, v)
                                 \/ CallUpdateNode(l, v) \/ BodyPushes(v, l)
  \/ \E v \in Node : BodyRemoves(v)

ListSpec == ListInit /\ [][ListNext]_listVars

(***************************************************************************)
(* Properties.                                                             *)
(***************************************************************************)

(* The links agree with what the calls should have done: forward from      *)
(* start, backward from end and by get at every index one finds exactly    *)
(* the nodes that were put in and not taken out, in their order, and len   *)
(* counts them.  A list that became empty with stale start and end is one  *)
(* of the cases.                                                           *)
ListExact ==
  \A l \in List :
    LET c == content[l]
    IN /\ lst[l].len = Len(c)
       /\ \A i \in DOMAIN c : GetNode(l, i - 1) = c[i]
       /\ c # <<>> => /\ lst[l].start = Head(c) /\ lst[l].end = Last(c)
                      /\ prev[Head(c)] = Nil /\ next[Last(c)] = Nil
       /\ \A i \in 1 .. Len(c) - 1 : next[c[i]] = c[i + 1] /\ prev[c[i + 1]] = c[i]

(* The note on Iter: nodes it returned may leave the list, be put into     *)
(* another one or be freed.  The iteration still gives out every node that *)
(* was in the list at its start once, from the front and from the back in  *)
(* any mixture, and stops.                                                 *)
IterExact ==
  it.on =>
    /\ Len(seen.front) + Len(seen.back) + it.len = Len(seen.want)
    /\ \A i \in DOMAIN seen.front : seen.front[i] = seen.want[i]
    /\ \A i \in DOMAIN seen.back : seen.back[i] = seen.want[Len(seen.want) + 1 - i]
=============================================================================
