----------------------------- MODULE PageTables -----------------------------
(***************************************************************************)
(* The page tables of an address space: PageTable and map_internal of      *)
(* kernel/src/mem/virt_alloc.rs.  AddressSpace takes them for a relation   *)
(* of pages to frames; this module is about the tables that stand for it,  *)
(* which are made on demand and freed when they are counted down to zero.  *)
(*                                                                         *)
(* The number of entries in use is kept in the spare bits of entry 0.      *)
(***************************************************************************)
EXTENDS Integers, Sequences, FiniteSets, Functions

CONSTANTS Levels,    \* 4 in the code
          Entries,   \* entries of a table, 512 in the code
          Table,     \* frames for tables
          Root,      \* the frame of the top table
          Kernel     \* the table of the kernel, which every process shares

VARIABLES tables,   \* the tables in use: entries and count
          frames,   \* the frames that the address space has mapped
          fault     \* the panic that stopped the kernel, or "no"

vars == <<tables, frames, fault>>

Index == 0 .. Entries - 1

(* What an entry holds: nothing, the next table, or the end of the walk.   *)
None == [kind |-> "none"]
Next_(t) == [kind |-> "table", to |-> t]
Leaf == [kind |-> "leaf"]

EmptyTable == [entry |-> [i \in Index |-> None], count |-> 0]

(* PageTable::set: the pointer is written over all of the entry, the count *)
(* included if it is entry 0, and the count is read again afterwards.      *)
SetEntry(T, i, e) ==
  [entry |-> [T.entry EXCEPT ![i] = e], count |-> IF i = 0 THEN 1 ELSE T.count + 1]

(* PageTable::remove: only the present bit of the entry is cleared.        *)
ClearEntry(T, i) == [entry |-> [T.entry EXCEPT ![i] = None], count |-> T.count - 1]

(* free_if_empty                                                           *)
FreeIfEmpty(T) == T.count = 0

(* A frame is the page it begins at and the depth of its entry: Levels for *)
(* a page, less for a large page, whose address is aligned to its size.    *)
Frame == {f \in [page : 0 .. Entries ^ Levels - 1, depth : Levels - 1 .. Levels] :
            f.page % (Entries ^ (Levels - f.depth)) = 0}
Covers(f) == f.page .. f.page + Entries ^ (Levels - f.depth) - 1

(* The index at depth d on the way to a page.                              *)
Num(f, d) == (f.page \div (Entries ^ (Levels - d))) % Entries

(* The tables on the way to the frame f as far as they are there:          *)
(* path[d] is the table at depth d.                                        *)
Path(f) ==
  LET path[d \in 1 .. f.depth] ==
        IF d = 1 THEN Root
        ELSE IF path[d - 1] \in DOMAIN tables
                /\ tables[path[d - 1]].entry[Num(f, d - 1)].kind = "table"
        THEN tables[path[d - 1]].entry[Num(f, d - 1)].to
        ELSE Root
  IN path

(* get() unwraps at each depth above the last.                             *)
Reached(f) ==
  \A d \in 1 .. f.depth - 1 :
    Path(f)[d] \in DOMAIN tables /\ tables[Path(f)[d]].entry[Num(f, d)].kind = "table"

(* VirtMapper::new: the top table starts with a count of its own, so that  *)
(* it is never freed, and the kernel in the last entry.                    *)
Init ==
  /\ tables = [t \in {Root} |-> SetEntry([EmptyTable EXCEPT !.count = 1], Entries - 1, Next_(Kernel))]
  /\ frames = {} /\ fault = "no"

(* The Map action of map_internal: get_or_alloc on the way down, then set. *)
(* Nothing is modelled beyond a top table that was itself freed.           *)
MapFrame(f) ==
  LET missing == {d \in 2 .. f.depth : \E e \in 1 .. d - 1 :
                    tables[Path(f)[e]].entry[Num(f, e)].kind = "none"}
      free == Table \ DOMAIN tables
  IN /\ fault = "no" /\ Root \in DOMAIN tables
     /\ \A g \in frames : Covers(f) \cap Covers(g) = {}
     /\ \A p \in Covers(f) : p > 0 /\ p < (Entries - 1) * Entries ^ (Levels - 1)
     /\ \E new \in Injection(missing, free) :
          LET at(d) == IF d \in missing THEN new[d] ELSE Path(f)[d]
              old(d) == IF d \in missing THEN EmptyTable ELSE tables[Path(f)[d]]
              entry(d) == IF d = f.depth THEN Leaf ELSE Next_(at(d + 1))
              set(d) == IF d = f.depth \/ d + 1 \in missing
                        THEN SetEntry(old(d), Num(f, d), entry(d)) ELSE old(d)
          IN tables' = [t \in DOMAIN tables \cup Range(new) |->
                          IF \E d \in 1 .. f.depth : at(d) = t
                          THEN set(CHOOSE d \in 1 .. f.depth : at(d) = t) ELSE tables[t]]
     /\ frames' = frames \cup {f}
     /\ UNCHANGED fault

(* The Unmap action: the entry is removed, and while the table it was in   *)
(* is counted down to zero, that table is freed and its own entry removed. *)
UnmapFrame(f) ==
  LET path == Path(f)
      freed == {d \in 1 .. f.depth : \A e \in d .. f.depth :
                  FreeIfEmpty(ClearEntry(tables[path[e]], Num(f, e)))}
      cleared == {d \in 1 .. f.depth : d = f.depth \/ d + 1 \in freed}
  IN /\ fault = "no" /\ f \in frames
     /\ IF ~Reached(f) THEN fault' = "unwrap" /\ UNCHANGED <<tables, frames>>
        ELSE /\ tables' = [t \in DOMAIN tables \ {path[d] : d \in freed} |->
                             IF \E d \in cleared : path[d] = t
                             THEN LET d == CHOOSE e \in cleared : path[e] = t
                                  IN ClearEntry(tables[t], Num(f, d))
                             ELSE tables[t]]
             /\ frames' = frames \ {f}
             /\ UNCHANGED fault

Next == \E f \in Frame : MapFrame(f) \/ UnmapFrame(f)

Spec == Init /\ [][Next]_vars

(* What free_if_empty and the unwrap in get take for granted: a table is   *)
(* freed only when it is empty, so that the tables on the way to every     *)
(* frame that is mapped are there.                                         *)
TablesStay == fault = "no" /\ \A f \in frames : Reached(f)
=============================================================================
