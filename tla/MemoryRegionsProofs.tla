------------------------- MODULE MemoryRegionsProofs -------------------------
(***************************************************************************)
(* Machine-checked proofs about editing a process: for any number of       *)
(* regions and of places in them.                                          *)
(***************************************************************************)
EXTENDS MemoryRegions, FiniteSetTheorems, TLAPS

\* The facts about the natural numbers and about recursion that are stated
\* in DocumentProofs, and that need nothing of its constants.
Order == INSTANCE DocumentProofs WITH Radix <- 1, None <- -1

\* A finite set can be listed by a key that no two of its elements share.
LEMMA Sortable ==
    ASSUME NEW S, IsFiniteSet(S), NEW key \in [S -> Nat],
           \A x, y \in S : key[x] = key[y] => x = y
    PROVE  \E s \in [1..Cardinality(S) -> S] :
              \A i, j \in DOMAIN s : i < j => key[s[i]] < key[s[j]]
<1> DEFINE Sorted(s) == \A i, j \in DOMAIN s : i < j => key[s[i]] < key[s[j]]
           T == {n \in Nat : \A U \in SUBSET S :
                    Cardinality(U) = n => \E s \in [1..n -> U] : Sorted(s)}
<1>1. 0 \in T
  <2> SUFFICES ASSUME NEW U \in SUBSET S, Cardinality(U) = 0
               PROVE  \E s \in [1..0 -> U] : Sorted(s)
    OBVIOUS
  <2> DEFINE s == [i \in 1..0 |-> key]
  <2>1. 1..0 = {}
    OBVIOUS
  <2>2. s \in [1..0 -> U] /\ DOMAIN s = {}
    BY <2>1
  <2> QED BY <2>2
<1>2. ASSUME NEW n \in T
      PROVE  n + 1 \in T
  <2> SUFFICES ASSUME NEW U \in SUBSET S, Cardinality(U) = n + 1
               PROVE  \E s \in [1..(n + 1) -> U] : Sorted(s)
    OBVIOUS
  <2>0. n \in Nat /\ IsFiniteSet(U) /\ U # {}
    BY FS_Subset, FS_EmptySet
  <2>1. PICK x \in U : \A y \in U : key[x] <= key[y]
    <3> DEFINE K == {key[y] : y \in U}
    <3>1. K \in SUBSET Nat /\ K # {}
      BY <2>0
    <3>2. PICK m \in K : \A k \in K : m <= k
      <4> HIDE DEF K
      <4> QED BY <3>1, Order!LeastNatural
    <3> QED BY <3>2
  <2>2. Cardinality(U \ {x}) = n
    <3>1. Cardinality(U \ {x}) = Cardinality(U) - 1
      BY <2>0, FS_RemoveElement
    <3> QED BY <2>0, <3>1
  <2>3. PICK t \in [1..n -> U \ {x}] : Sorted(t)
    BY <2>2
  <2> DEFINE s == [i \in 1..(n + 1) |-> IF i = 1 THEN x ELSE t[i - 1]]
  <2>4. s \in [1..(n + 1) -> U]
    BY <2>0
  <2>5. ASSUME NEW i \in 1..(n + 1), NEW j \in 1..(n + 1), i < j
        PROVE  key[s[i]] < key[s[j]]
    <3>1. j - 1 \in 1..n /\ s[j] = t[j - 1] /\ t[j - 1] \in U \ {x}
      BY <2>0, <2>5
    <3>2. CASE i = 1
      <4>1. s[i] = x /\ key[x] <= key[s[j]] /\ key[x] # key[s[j]]
        BY <2>1, <3>1, <3>2
      <4>2. key[x] \in Nat /\ key[s[j]] \in Nat
        BY <3>1
      <4> QED BY <4>1, <4>2
    <3>3. CASE i # 1
      <4>1. i - 1 \in 1..n /\ s[i] = t[i - 1] /\ i - 1 < j - 1
        BY <2>0, <2>5, <3>3
      <4> QED BY <2>3, <3>1, <4>1
    <3> QED BY <3>2, <3>3
  <2> QED BY <2>4, <2>5
<1>3. T = Nat
  <2> HIDE DEF T
  <2>1. T \in SUBSET Nat
    BY DEF T
  <2> QED BY <1>1, <1>2, <2>1, Order!AllNaturals
<1>4. Cardinality(S) \in T
  BY <1>3, FS_CardinalityType
<1> QED BY <1>4

-----------------------------------------------------------------------------
(* Freezing. *)

\* What holds of the freezes while FreezeBalanced is kept: a session dies
\* only with its target, and a target that has exited is not stopped.
FreezeInv ==
    /\ depth \in Nat
    /\ dead \in BOOLEAN /\ exited \in BOOLEAN
    /\ suspended \in BOOLEAN /\ stuck \in BOOLEAN
    /\ dead => exited
    /\ exited => ~suspended
    /\ FreezeBalanced

\* A new session counts no freeze and the target runs.
LEMMA FreezeStart == Init => FreezeInv
<1> SUFFICES ASSUME Init
             PROVE  FreezeInv
  OBVIOUS
<1>1. depth = 0 /\ dead = FALSE /\ exited = FALSE /\ suspended = FALSE /\ stuck = FALSE
  BY Zenon DEF Init
<1>2. depth \in Nat /\ ~ (depth > 0)
  BY <1>1
<1> QED BY <1>1, <1>2, Zenon DEF FreezeInv, FreezeBalanced

\* Nothing but a death on exit changes.
LEMMA FreezeKept ==
    ASSUME FreezeInv, UNCHANGED <<exited, suspended, depth, stuck>>,
           dead' = dead \/ (exited /\ dead' = TRUE)
    PROVE  FreezeInv'
<1>1. exited' = exited /\ suspended' = suspended /\ depth' = depth /\ stuck' = stuck
  OBVIOUS
<1>2. CASE dead' = dead
  BY <1>1, <1>2 DEF FreezeInv, FreezeBalanced
<1>3. CASE exited /\ dead' = TRUE
  BY <1>1, <1>3 DEF FreezeInv, FreezeBalanced
<1> QED BY <1>2, <1>3

\* Every step keeps FreezeInv.
LEMMA FreezeStep == FreezeInv /\ [Next]_vars => FreezeInv'
<1> SUFFICES ASSUME FreezeInv, [Next]_vars
             PROVE  FreezeInv'
  OBVIOUS
<1> USE DEF FreezeInv, FreezeBalanced, targetVars, sessionVars, historyVars
<1>1. ASSUME NEW s \in Slots, NEW v \in Typed, Edit(s, v)
      PROVE  FreezeInv'
  BY <1>1 DEF Edit
<1>2. CASE Undo \/ Redo
  BY <1>2 DEF Undo, Redo
<1>3. ASSUME NEW i \in DOMAIN list, Select(i)
      PROVE  FreezeInv'
  BY <1>3 DEF Select
<1>4. ASSUME NEW i \in DOMAIN list, OpenRegion(i)
      PROVE  FreezeInv'
  BY <1>4 DEF OpenRegion, StayInRegion, EnterRegion, FailToEnter, ReadRegion,
              CannotRead, NotAlive, Alive
<1>5. CASE Commit
  BY <1>5 DEF Commit, WriteSpans, StopWriting, Reopen, ReadRegion, CannotRead,
              NotAlive, Alive
<1>6. CASE CommitAll
  <2>1. UNCHANGED <<exited, suspended, depth, stuck>>
    BY <1>6 DEF CommitAll
  <2>2. dead' = dead \/ (exited /\ dead' = TRUE)
    <3> SUFFICES ASSUME NEW held, Reopen(held) \/ StopWriting(held)
                 PROVE  dead' = dead \/ (exited /\ dead' = TRUE)
      BY <1>6, Zenon DEF CommitAll
    <3>1. CASE Reopen(held)
      BY <3>1 DEF Reopen, ReadRegion, CannotRead, NotAlive
    <3>2. CASE StopWriting(held)
      BY <3>2 DEF StopWriting, NotAlive
    <3> QED BY <3>1, <3>2
  <2> QED BY <2>1, <2>2, FreezeKept
<1>7. CASE Refresh
  BY <1>7, FreezeKept DEF Refresh, NotAlive
<1>8. CASE Freeze
  <2>1. depth + 1 \in Nat /\ depth + 1 > 0
    OBVIOUS
  <2>2. exited' = exited /\ stuck' = stuck
    BY <1>8 DEF Freeze
  <2>3. CASE depth' = depth + 1 /\ Alive /\ suspended' = TRUE /\ dead' = dead
    BY <2>1, <2>2, <2>3, Zenon DEF Alive
  <2>4. CASE UNCHANGED <<depth, suspended>> /\ NotAlive
    BY <2>2, <2>4, FreezeKept DEF NotAlive
  <2> QED BY <1>8, <2>3, <2>4 DEF Freeze
<1>9. CASE Thaw
  <2>1. depth - 1 \in Nat /\ (depth - 1 > 0 <=> depth # 1)
    BY <1>9 DEF Thaw
  <2> QED BY <1>9, <2>1, Zenon DEF Thaw
<1>10. CASE Attach
  <2>1. 0 \in Nat /\ ~ (0 > 0)
    OBVIOUS
  <2> QED BY <1>10, <2>1, Zenon DEF Attach, DropSession
<1>11. ASSUME NEW force \in BOOLEAN, Quit(force)
       PROVE  FreezeInv'
  <2>1. 0 \in Nat /\ ~ (0 > 0)
    OBVIOUS
  <2> QED BY <1>11, <2>1, Zenon DEF Quit, DropSession
<1>12. CASE Exit
  BY <1>12 DEF Exit
<1>13. ASSUME NEW r \in Regions, Remap(r)
       PROVE  FreezeInv'
  BY <1>13 DEF Remap
<1>14. CASE UNCHANGED vars
  BY <1>14 DEF vars
<1> QED BY <1>1, <1>2, <1>3, <1>4, <1>5, <1>6, <1>7, <1>8, <1>9, <1>10, <1>11,
           <1>12, <1>13, <1>14 DEF Next

\* The target is stopped exactly while the session counts a freeze (session.rs),
\* however deep freezes nest and whatever fails, unless the last thaw failed.
THEOREM FreezesBalance == Spec => []FreezeBalanced
<1>1. FreezeInv => FreezeBalanced
  BY DEF FreezeInv
<1> QED BY FreezeStart, FreezeStep, <1>1, PTL DEF Spec

-----------------------------------------------------------------------------
(* A target that changes permissions but maps and unmaps nothing.  The run *)
(* memory_refresh shows what goes wrong when it does.                      *)

Mapped == DOMAIN Initial
Places == 1..Cardinality(Mapped)
Entries == [id : Mapped, perm : Perms, dirty : BOOLEAN, stale : BOOLEAN]

\* A region list has the mapped regions in address order.
WellListed(regions) ==
    /\ regions \in [Places -> Entries]
    /\ \A i \in Places : regions[i].id = ById(Mapped)[i]

\* A place in a list goes on naming the region that edits were made in.
EditsAtHome ==
    /\ opened \in Places /\ owner = list[opened].id
    /\ \A i \in DOMAIN stash : i \in Places /\ stash[i].of = list[i].id

\* Every snapshot in held is what the region holds.
Current(held, bytes) ==
    \A f \in DOMAIN held : f \in Mapped \X Perms /\ held[f] = bytes[f[1]]

RegionInv ==
    /\ strayed = FALSE
    /\ DOMAIN mapped = Mapped /\ \A r \in Mapped : mapped[r] \in Perms
    /\ \A r \in Regions : mem[r] = [s \in Slots |-> mem[r][s]]
    /\ Running =>
        /\ WellListed(list)
        /\ EditsAtHome
        /\ Current(pages, mem)
        /\ unread \in BOOLEAN
        /\ ~unread /\ ~list[opened].dirty => base = mem[owner]

\* The regions mapped at first are finitely many addresses.
LEMMA MappedFinite == Mapped \in SUBSET Nat /\ Mapped \subseteq Regions /\ IsFiniteSet(Mapped)
BY MemoryConstants, FS_Subset DEF Mapped

\* Their places in the list are an interval.
LEMMA PlacesFinite == Cardinality(Mapped) \in Nat /\ IsFiniteSet(Places)
<1>1. Cardinality(Mapped) \in Nat
  BY MappedFinite, FS_CardinalityType
<1> QED BY <1>1, FS_Interval DEF Places

\* What ById lists: everything once.
LEMMA Listing ==
    ASSUME NEW S \in SUBSET Nat, IsFiniteSet(S)
    PROVE  /\ ById(S) \in [1..Cardinality(S) -> S]
           /\ \A i, j \in 1..Cardinality(S) : ById(S)[i] = ById(S)[j] => i = j
           /\ \A x \in S : \E i \in 1..Cardinality(S) : ById(S)[i] = x
<1> DEFINE n == Cardinality(S)
<1>0. n \in Nat
  BY FS_CardinalityType
<1>1. \E s \in [1..n -> S] : \A i, j \in DOMAIN s : i < j => s[i] < s[j]
  <2> DEFINE key == [x \in S |-> x]
  <2>1. key \in [S -> Nat] /\ \A x, y \in S : key[x] = key[y] => x = y
    OBVIOUS
  <2>2. PICK s \in [1..n -> S] : \A i, j \in DOMAIN s : i < j => key[s[i]] < key[s[j]]
    BY <2>1, Sortable
  <2> QED BY <2>2
<1>2. /\ ById(S) \in [1..n -> S]
      /\ \A i, j \in DOMAIN ById(S) : i < j => ById(S)[i] < ById(S)[j]
  BY <1>1 DEF ById, InOrder
<1> DEFINE b == ById(S)
<1> HIDE DEF n, b
<1>3. ASSUME NEW i \in 1..n, NEW j \in 1..n, b[i] = b[j]
      PROVE  i = j
  <2>1. b[i] \in Nat /\ b[j] \in Nat
    BY <1>2 DEF b
  <2>2. ~ (i < j) /\ ~ (j < i)
    BY <1>2, <1>3, <2>1 DEF b
  <2> QED BY <1>0, <2>2
<1>4. b \in Injection(1..n, S)
  BY <1>2, <1>3 DEF b, Injection, IsInjective
<1>5. Cardinality(1..n) = n
  BY <1>0, FS_Interval
<1>6. b \in Surjection(1..n, S)
  BY <1>4, <1>5, FS_Injection DEF n
<1>7. \A x \in S : \E i \in 1..n : b[i] = x
  BY <1>6 DEF Surjection
<1> QED BY <1>2, <1>3, <1>7 DEF n, b

\* A region is listed once.
LEMMA ListedOnce ==
    ASSUME NEW regions, WellListed(regions), NEW i \in Places, NEW j \in Places,
           regions[i].id = regions[j].id
    PROVE  i = j
BY Listing, MappedFinite DEF WellListed, Places

\* Opening a session, or attaching again, lists every region.
LEMMA Relisted ==
    ASSUME DOMAIN mapped = Mapped, \A r \in Mapped : mapped[r] \in Perms
    PROVE  WellListed(MappedList)
<1>1. ById(Mapped) \in [Places -> Mapped]
  BY Listing, MappedFinite DEF Places
<1> QED BY <1>1 DEF WellListed, MappedList, Fresh, Entries

\* The first readable region is there when one can be read.
LEMMA Readable ==
    ASSUME DOMAIN mapped = Mapped, \A r \in Mapped : mapped[r] \in Perms,
           \E r \in Mapped : mapped[r] # "none"
    PROVE  FirstReadable(MappedList) \in Places
<1> DEFINE l == MappedList
           C == {i \in Places : l[i].perm # "none"}
<1>1. WellListed(l) /\ DOMAIN l = Places
  BY Relisted DEF WellListed
<1>2. Places \in SUBSET Nat
  BY DEF Places
<1>3. C # {}
  <2>1. PICK r \in Mapped : mapped[r] # "none"
    OBVIOUS
  <2>2. PICK i \in Places : ById(Mapped)[i] = r
    BY Listing, MappedFinite DEF Places
  <2>3. l[i] = Fresh(r)
    BY <1>1, <2>2 DEF MappedList
  <2> QED BY <2>1, <2>3 DEF Fresh
<1>4. PICK i \in C : \A j \in C : i <= j
  <2>1. C \in SUBSET Nat
    BY <1>2
  <2> HIDE DEF C
  <2> QED BY <1>3, <2>1, Order!LeastNatural
<1>5. \E k \in DOMAIN l : /\ l[k].perm # "none"
                          /\ \A j \in DOMAIN l : j < k => l[j].perm = "none"
  <2>1. ASSUME NEW j \in Places, j < i
        PROVE  l[j].perm = "none"
    <3>1. i \in Nat /\ j \in Nat
      BY <1>2
    <3>2. ~ (i <= j)
      BY <2>1, <3>1
    <3> QED BY <1>4, <3>2
  <2> QED BY <1>1, <1>4, <2>1
<1> HIDE DEF l
<1>6. FirstReadable(l) \in DOMAIN l
  BY <1>5 DEF FirstReadable
<1> QED BY <1>1, <1>6 DEF l

\* A new session shows its region as it is.
LEMMA RegionStart == Init => RegionInv
<1> SUFFICES ASSUME Init
             PROVE  RegionInv
  OBVIOUS
<1>1. /\ mapped = Initial /\ mem = [r \in Regions |-> Blank] /\ list = MappedList
      /\ opened = FirstReadable(list) /\ owner = list[opened].id /\ base = mem[owner]
      /\ pages = With(Empty, Fingerprint(list[opened]), base) /\ stash = Empty
      /\ strayed = FALSE /\ unread = FALSE
  BY DEF Init
<1>2. DOMAIN mapped = Mapped /\ \A r \in Mapped : mapped[r] \in Perms
  BY <1>1, MemoryConstants DEF Mapped
<1>3. WellListed(list)
  BY <1>1, <1>2, Relisted
<1>4. opened \in Places
  BY <1>1, <1>2, Readable, MemoryConstants DEF Mapped
<1>5. list[opened].id \in Mapped /\ list[opened].perm \in Perms
  BY <1>3, <1>4 DEF WellListed, Entries
<1>6. DOMAIN stash = {}
  BY <1>1 DEF Empty
<1>7. Current(pages, mem)
  <2>1. DOMAIN pages = {<<list[opened].id, list[opened].perm>>}
    BY <1>1 DEF With, Empty, Fingerprint
  <2>2. pages[<<list[opened].id, list[opened].perm>>] = base
    BY <1>1 DEF With, Empty, Fingerprint
  <2> QED BY <1>1, <1>5, <2>1, <2>2 DEF Current
<1>8. \A r \in Regions : mem[r] = [s \in Slots |-> mem[r][s]]
  BY <1>1 DEF Blank
<1> QED BY <1>1, <1>2, <1>3, <1>4, <1>6, <1>7, <1>8 DEF RegionInv, EditsAtHome

\* A region is read as it is, from the cache or from the target.
LEMMA ReadsCurrent ==
    ASSUME WellListed(list), NEW i \in Places, NEW held, Current(held, mem'),
           DOMAIN held = DOMAIN pages, ReadRegion(i, held)
    PROVE  ReadBytes(i, held) = mem'[list[i].id] /\ Current(pages', mem')
<1>1. Fingerprint(list[i]) = <<list[i].id, list[i].perm>>
      /\ Fingerprint(list[i]) \in Mapped \X Perms
  BY DEF Fingerprint, WellListed, Entries
<1>2. ReadBytes(i, held) = mem'[list[i].id]
  <2>1. CASE Cached(i)
    BY <1>1, <2>1 DEF Current, ReadBytes, Cached
  <2>2. CASE ~Cached(i)
    BY <2>2 DEF ReadBytes
  <2> QED BY <2>1, <2>2
<1>3. pages' = With(held, Fingerprint(list[i]), mem'[list[i].id])
  BY <1>2 DEF ReadRegion
<1>4. ASSUME NEW f \in DOMAIN pages'
      PROVE  f \in Mapped \X Perms /\ pages'[f] = mem'[f[1]]
  <2>1. f \in DOMAIN held \cup {Fingerprint(list[i])}
    BY <1>3, <1>4 DEF With
  <2>2. CASE f = Fingerprint(list[i])
    BY <1>1, <1>3, <2>1, <2>2 DEF With
  <2>3. CASE f # Fingerprint(list[i])
    BY <1>3, <2>1, <2>3 DEF With, Current
  <2> QED BY <2>2, <2>3
<1> QED BY <1>2, <1>4 DEF Current

\* Writing spans of pending edits: they go where they were made, the snapshots
\* follow, and a region that stays clean without being done is not touched.
LEMMA Writes ==
    ASSUME RegionInv, Running, NEW written, NEW done,
           DOMAIN written \subseteq DOMAIN Pending \cap Places,
           done \subseteq DOMAIN written, WriteSpans(written, done)
    PROVE  /\ strayed' = FALSE
           /\ WellListed(list') /\ \A i \in Places : list'[i].id = list[i].id
           /\ \A r \in Regions : mem'[r] = [s \in Slots |-> mem'[r][s]]
           /\ DOMAIN PagesWith(written) = DOMAIN pages
           /\ Current(PagesWith(written), mem')
           /\ \A i \in Places \ done : ~list'[i].dirty =>
                ~list[i].dirty /\ mem'[list[i].id] = mem[list[i].id]
<1>1. WellListed(list) /\ EditsAtHome /\ Current(pages, mem) /\ strayed = FALSE
  BY DEF RegionInv
<1>2. mem' = MemWith(written) /\ list' = ListWith(written, done)
  BY DEF WriteSpans
<1>3. ASSUME NEW i \in DOMAIN written
      PROVE  Owner(i) = list[i].id
  <2>1. i \in DOMAIN stash \cup {opened}
    BY DEF Pending
  <2> QED BY <1>1, <2>1 DEF Owner, EditsAtHome
<1>4. strayed' = FALSE
  BY <1>1, <1>3 DEF WriteSpans
<1>5. WellListed(list') /\ \A i \in Places : list'[i].id = list[i].id
  <2>1. DOMAIN list = Places /\ list' \in [Places -> Entries]
    BY <1>1, <1>2 DEF ListWith, WellListed, Entries
  <2>2. ASSUME NEW i \in Places
        PROVE  list'[i].id = list[i].id
    <3>1. list[i] \in Entries
      BY <1>1 DEF WellListed
    <3>2. \/ list'[i] = list[i]
          \/ list'[i] = [list[i] EXCEPT !.dirty = FALSE, !.stale = FALSE]
          \/ list'[i] = [list[i] EXCEPT !.dirty = TRUE]
      BY <1>2, <2>1 DEF ListWith
    <3> QED BY <3>1, <3>2 DEF Entries
  <2> QED BY <1>1, <2>1, <2>2 DEF WellListed
<1>6. \A r \in Regions : mem'[r] = Overwritten(mem[r], r, written)
  BY <1>2 DEF MemWith
<1>7. \A r \in Regions : mem'[r] = [s \in Slots |-> mem'[r][s]]
  BY <1>6 DEF Overwritten
<1>8. DOMAIN PagesWith(written) = DOMAIN pages /\ Current(PagesWith(written), mem')
  <2>1. DOMAIN PagesWith(written) = DOMAIN pages
    BY DEF PagesWith
  <2>2. ASSUME NEW f \in DOMAIN pages
        PROVE  f \in Mapped \X Perms /\ PagesWith(written)[f] = mem'[f[1]]
    <3>1. f \in Mapped \X Perms /\ pages[f] = mem[f[1]]
      BY <1>1 DEF Current
    <3>2. f[1] \in Regions
      BY <3>1, MappedFinite
    <3>3. PagesWith(written)[f] = Overwritten(pages[f], f[1], written)
      BY DEF PagesWith
    <3> QED BY <1>6, <3>1, <3>2, <3>3
  <2> QED BY <2>1, <2>2 DEF Current
<1>9. ASSUME NEW i \in Places \ done, ~list'[i].dirty
      PROVE  ~list[i].dirty /\ mem'[list[i].id] = mem[list[i].id]
  <2>1. list[i].id \in Regions
    BY <1>1, MappedFinite DEF WellListed, Entries
  <2>2. ~list[i].dirty /\ ~(i \in DOMAIN written /\ written[i] # {})
    BY <1>1, <1>2, <1>9 DEF ListWith, WellListed, Entries
  <2>3. ASSUME NEW s \in Slots
        PROVE  {j \in DOMAIN written : list[j].id = list[i].id /\ s \in written[j]} = {}
    BY <1>1, <2>2, ListedOnce
  <2>4. mem[list[i].id] = [s \in Slots |-> mem[list[i].id][s]]
    BY <2>1 DEF RegionInv
  <2>5. Overwritten(mem[list[i].id], list[i].id, written)
            = [s \in Slots |-> mem[list[i].id][s]]
    BY <2>3 DEF Overwritten
  <2> QED BY <1>6, <2>1, <2>2, <2>4, <2>5
<1> QED BY <1>4, <1>5, <1>7, <1>8, <1>9

\* A commit, of one region or of all, whether it ends early or not.
LEMMA CommitKeeps ==
    ASSUME RegionInv, Running, NEW written, NEW done,
           DOMAIN written \subseteq DOMAIN Pending \cap Places,
           done \subseteq DOMAIN written, WriteSpans(written, done),
           (opened \in done /\ Reopen(PagesWith(written)))
             \/ (opened \notin done /\ StopWriting(written)),
           DOMAIN stash' \subseteq DOMAIN stash,
           \A i \in DOMAIN stash' : stash'[i] = stash[i],
           UNCHANGED <<mapped, opened, quit>>
    PROVE  RegionInv'
<1> DEFINE held == PagesWith(written)
<1>1. /\ strayed' = FALSE
      /\ WellListed(list') /\ \A i \in Places : list'[i].id = list[i].id
      /\ \A r \in Regions : mem'[r] = [s \in Slots |-> mem'[r][s]]
      /\ DOMAIN held = DOMAIN pages /\ Current(held, mem')
      /\ \A i \in Places \ done : ~list'[i].dirty =>
            ~list[i].dirty /\ mem'[list[i].id] = mem[list[i].id]
  BY Writes
<1>2. WellListed(list) /\ EditsAtHome /\ unread \in BOOLEAN
      /\ (~unread /\ ~list[opened].dirty => base = mem[owner])
  BY DEF RegionInv
<1>3. (DOMAIN mapped = Mapped /\ \A r \in Mapped : mapped[r] \in Perms)'
  BY DEF RegionInv
<1> HIDE DEF held
<1>4. opened \in Places /\ owner = list[opened].id
  BY <1>2 DEF EditsAtHome
<1>5. /\ owner' = owner /\ Current(pages', mem') /\ unread' \in BOOLEAN
      /\ ~unread' /\ ~list'[opened].dirty => base' = mem'[owner]
  <2>1. CASE opened \in done /\ Reopen(held)
    <3>1. CASE /\ ReadRegion(opened, held)
               /\ ShowRegion(opened, held, NoEdits(list[opened].id))
               /\ unread' = FALSE
      <4>1. ReadBytes(opened, held) = mem'[list[opened].id] /\ Current(pages', mem')
        BY <1>1, <1>2, <1>4, <3>1, ReadsCurrent
      <4>2. owner' = list[opened].id /\ base' = ReadBytes(opened, held)
        BY <3>1 DEF ShowRegion, NoEdits
      <4> QED BY <1>4, <3>1, <4>1, <4>2
    <3>2. CASE CannotRead(opened, held) /\ unread' = TRUE /\ UNCHANGED docVars
      BY <1>1, <3>2 DEF CannotRead, docVars
    <3> QED BY <2>1, <3>1, <3>2 DEF Reopen
  <2>2. CASE opened \notin done /\ StopWriting(written)
    <3>1. pages' = held /\ owner' = owner /\ base' = base /\ unread' = unread
      BY <2>2 DEF StopWriting, docVars, held
    <3> QED BY <1>1, <1>2, <1>4, <2>2, <3>1
  <2> QED BY <2>1, <2>2 DEF held
<1>6. EditsAtHome'
  BY <1>1, <1>2, <1>4, <1>5 DEF EditsAtHome
<1> QED BY <1>1, <1>3, <1>4, <1>5, <1>6 DEF RegionInv

\* :mem commit keeps RegionInv, wherever it stops.
LEMMA CommitStep == RegionInv /\ Commit => RegionInv'
<1> SUFFICES ASSUME RegionInv, Commit
             PROVE  RegionInv'
  OBVIOUS
<1>1. Running /\ opened \in Places /\ UNCHANGED <<mapped, opened, quit>>
  BY DEF Commit, RegionInv, EditsAtHome
<1>2. opened \in DOMAIN Pending
  BY DEF Commit, Pending
<1>3. PICK n \in 0..Spans(opened) :
        LET written == [i \in {opened} |-> FirstSlots(opened, n)]
        IN  \/ /\ n < Spans(opened)
               /\ WriteSpans(written, {}) /\ StopWriting(written)
               /\ stash' = stash
            \/ /\ n = Spans(opened)
               /\ WriteSpans(written, {opened}) /\ Reopen(PagesWith(written))
               /\ stash' = Without(stash, opened)
  BY Zenon DEF Commit
<1> DEFINE written == [i \in {opened} |-> FirstSlots(opened, n)]
<1>4. DOMAIN written = {opened}
  OBVIOUS
<1>5. CASE WriteSpans(written, {}) /\ StopWriting(written) /\ stash' = stash
  <2> HIDE DEF written
  <2> QED BY <1>1, <1>2, <1>4, <1>5, CommitKeeps
<1>6. CASE /\ WriteSpans(written, {opened}) /\ Reopen(PagesWith(written))
           /\ stash' = Without(stash, opened)
  <2> HIDE DEF written
  <2>1. DOMAIN stash' \subseteq DOMAIN stash /\ \A i \in DOMAIN stash' : stash'[i] = stash[i]
    BY <1>6 DEF Without
  <2> QED BY <1>1, <1>2, <1>4, <1>6, <2>1, CommitKeeps
<1> QED BY <1>3, <1>5, <1>6, Zenon

\* The order of :mem commit-all: every region with pending bytes, by address.
LEMMA Ordered ==
    ASSUME WellListed(list)
    PROVE  LET S == DOMAIN Pending \cap DOMAIN list
           IN  /\ CommitOrder \in [1..Cardinality(S) -> S] /\ Cardinality(S) \in Nat
               /\ \A x \in S : \E a \in 1..Cardinality(S) : CommitOrder[a] = x
               /\ \A a, b \in 1..Cardinality(S) :
                    a < b => list[CommitOrder[a]].id < list[CommitOrder[b]].id
<1> DEFINE S == DOMAIN Pending \cap DOMAIN list
           n == Cardinality(S)
           key == [i \in S |-> list[i].id]
<1>1. S \subseteq Places /\ IsFiniteSet(S) /\ n \in Nat
  BY PlacesFinite, FS_Subset, FS_CardinalityType DEF WellListed
<1>2. key \in [S -> Nat]
  BY <1>1, MappedFinite DEF WellListed, Entries
<1>3. \A x, y \in S : key[x] = key[y] => x = y
  BY <1>1, ListedOnce
<1> HIDE DEF S
<1>4. CommitOrder \in [1..n -> S]
        /\ \A a, b \in 1..n : a < b => list[CommitOrder[a]].id < list[CommitOrder[b]].id
  <2>1. PICK s \in [1..n -> S] : \A a, b \in DOMAIN s : a < b => key[s[a]] < key[s[b]]
    BY <1>1, <1>2, <1>3, Sortable
  <2>2. \A a, b \in DOMAIN s : a < b => list[s[a]].id < list[s[b]].id
    BY <2>1
  <2>3. CommitOrder = CHOOSE t \in [1..n -> S] :
            \A i, j \in DOMAIN t : i < j => list[t[i]].id < list[t[j]].id
    BY DEF CommitOrder, InOrder, S
  <2> QED BY <2>1, <2>2, <2>3
<1> HIDE DEF n
<1>5. ASSUME NEW a \in 1..n, NEW b \in 1..n, CommitOrder[a] = CommitOrder[b]
      PROVE  a = b
  <2>1. list[CommitOrder[a]].id \in Nat
    BY <1>2, <1>4
  <2>2. ~ (a < b) /\ ~ (b < a)
    BY <1>4, <1>5, <2>1
  <2> QED BY <1>1, <2>2
<1>6. CommitOrder \in Injection(1..n, S)
  BY <1>4, <1>5 DEF Injection, IsInjective
<1>7. Cardinality(1..n) = n
  BY <1>1, FS_Interval
<1>8. CommitOrder \in Surjection(1..n, S)
  BY <1>1, <1>6, <1>7, FS_Injection DEF n
<1>9. \A x \in S : \E a \in 1..n : CommitOrder[a] = x
  BY <1>8 DEF Surjection
<1> QED BY <1>1, <1>4, <1>9 DEF n, S

\* What :mem commit-all does: it writes the regions in done as a whole and, of
\* another one, what comes before a span that cannot be written.
LEMMA CommitAllParts ==
    ASSUME RegionInv, CommitAll
    PROVE  \E written, done :
            /\ DOMAIN written \subseteq DOMAIN Pending \cap Places
            /\ done \subseteq DOMAIN written
            /\ \A i \in DOMAIN written :
                \/ i \in done /\ written[i] = FirstSlots(i, Spans(i))
                \/ \E n \in 0..(Spans(i) - 1) : written[i] = FirstSlots(i, n)
            /\ \A i \in done : written[i] = FirstSlots(i, Spans(i))
            /\ \A i, j \in DOMAIN Pending \cap DOMAIN list :
                list[i].id < list[j].id /\ j \in done => i \in done
            /\ WriteSpans(written, done)
            /\ stash' = [i \in DOMAIN stash \ (done \ {opened}) |-> stash[i]]
            /\ \/ opened \in done /\ Reopen(PagesWith(written))
               \/ opened \notin done /\ StopWriting(written)
<1>1. WellListed(list) /\ DOMAIN list = Places
  BY DEF CommitAll, RegionInv, WellListed
<1> DEFINE S == DOMAIN Pending \cap DOMAIN list
           last == Cardinality(S)
<1>2. CommitOrder \in [1..last -> S] /\ last \in Nat
        /\ (\A x \in S : \E a \in 1..last : CommitOrder[a] = x)
        /\ \A a, b \in 1..last :
                a < b => list[CommitOrder[a]].id < list[CommitOrder[b]].id
  BY <1>1, Ordered
<1> HIDE DEF S, last
<1>3. Len(CommitOrder) = last
  BY <1>2
<1>4. PICK k \in 0..Len(CommitOrder) :
        \E n \in IF k = Len(CommitOrder) THEN {0}
                 ELSE 0..(Spans(CommitOrder[k + 1]) - 1) :
            LET done == {CommitOrder[j] : j \in 1..k}
                next == {CommitOrder[j] : j \in {k + 1} \cap DOMAIN CommitOrder}
                written == [i \in done \cup next |->
                                FirstSlots(i, IF i \in done THEN Spans(i) ELSE n)]
            IN  /\ WriteSpans(written, done)
                /\ stash' = [i \in DOMAIN stash \ (done \ {opened}) |-> stash[i]]
                /\ IF opened \in done THEN Reopen(PagesWith(written))
                   ELSE StopWriting(written)
  BY Zenon DEF CommitAll
<1> DEFINE done == {CommitOrder[j] : j \in 1..k}
           next == {CommitOrder[j] : j \in {k + 1} \cap DOMAIN CommitOrder}
<1>5. PICK n \in IF k = Len(CommitOrder) THEN {0}
                 ELSE 0..(Spans(CommitOrder[k + 1]) - 1) :
        LET written == [i \in done \cup next |->
                            FirstSlots(i, IF i \in done THEN Spans(i) ELSE n)]
        IN  /\ WriteSpans(written, done)
            /\ stash' = [i \in DOMAIN stash \ (done \ {opened}) |-> stash[i]]
            /\ IF opened \in done THEN Reopen(PagesWith(written))
               ELSE StopWriting(written)
  BY <1>4, Zenon
<1> DEFINE written == [i \in done \cup next |->
                          FirstSlots(i, IF i \in done THEN Spans(i) ELSE n)]
<1>6. done \cup next \subseteq S
  BY <1>2, <1>3
<1>7. ASSUME NEW i \in done \cup next
      PROVE  \/ i \in done /\ written[i] = FirstSlots(i, Spans(i))
             \/ \E m \in 0..(Spans(i) - 1) : written[i] = FirstSlots(i, m)
  <2>1. CASE i \in done
    BY <2>1
  <2>2. CASE i \notin done
    <3>1. i = CommitOrder[k + 1] /\ k + 1 \in DOMAIN CommitOrder
      BY <2>2
    <3>2. k # Len(CommitOrder)
      BY <1>2, <1>3, <3>1
    <3>3. n \in 0..(Spans(i) - 1)
      BY <1>5, <3>1, <3>2
    <3> QED BY <2>2, <3>3
  <2> QED BY <2>1, <2>2
<1>8. ASSUME NEW i \in S, NEW j \in S, list[i].id < list[j].id, j \in done
      PROVE  i \in done
  <2>1. PICK b \in 1..k : CommitOrder[b] = j
    BY <1>8
  <2>2. PICK a \in 1..last : CommitOrder[a] = i
    BY <1>2
  <2>3. list[i].id \in Nat /\ list[j].id \in Nat
    BY <1>1, MappedFinite DEF S, WellListed, Entries
  <2>4. b \in 1..last
    BY <1>2, <1>3
  <2>5. ~ (b < a)
    <3> SUFFICES ASSUME b < a
                 PROVE  FALSE
      OBVIOUS
    <3>1. list[j].id < list[i].id
      BY <1>2, <2>1, <2>2, <2>4
    <3> QED BY <1>8, <2>3, <3>1
  <2>6. a \in 1..k
    BY <2>1, <2>2, <2>5, <1>2
  <2> QED BY <2>2, <2>6
<1>9. DOMAIN written = done \cup next
      /\ \A i \in done : written[i] = FirstSlots(i, Spans(i))
  OBVIOUS
<1> HIDE DEF written, done, next
<1>10. /\ WriteSpans(written, done)
       /\ stash' = [i \in DOMAIN stash \ (done \ {opened}) |-> stash[i]]
       /\ (opened \in done /\ Reopen(PagesWith(written)))
            \/ (opened \notin done /\ StopWriting(written))
  BY <1>5, Zenon DEF written
<1>11. DOMAIN written \subseteq DOMAIN Pending \cap Places /\ done \subseteq DOMAIN written
  BY <1>1, <1>6, <1>9 DEF S
<1> QED BY <1>7, <1>8, <1>9, <1>10, <1>11 DEF S

\* :mem commit-all keeps RegionInv: it writes in listed regions only.
LEMMA CommitAllStep == RegionInv /\ CommitAll => RegionInv'
<1> SUFFICES ASSUME RegionInv, CommitAll
             PROVE  RegionInv'
  OBVIOUS
<1>1. Running /\ UNCHANGED <<mapped, opened, quit>>
  BY DEF CommitAll
<1>2. PICK written, done :
        /\ DOMAIN written \subseteq DOMAIN Pending \cap Places
        /\ done \subseteq DOMAIN written
        /\ WriteSpans(written, done)
        /\ stash' = [i \in DOMAIN stash \ (done \ {opened}) |-> stash[i]]
        /\ \/ opened \in done /\ Reopen(PagesWith(written))
           \/ opened \notin done /\ StopWriting(written)
  BY CommitAllParts, Zenon
<1>3. DOMAIN stash' \subseteq DOMAIN stash /\ \A i \in DOMAIN stash' : stash'[i] = stash[i]
  BY <1>2
<1> QED BY <1>1, <1>2, <1>3, CommitKeeps

\* Opening a region keeps RegionInv, also when the read fails.
LEMMA OpenStep == ASSUME RegionInv, NEW i \in DOMAIN list, OpenRegion(i)
                  PROVE  RegionInv'
<1>1. Running /\ Running' /\ UNCHANGED <<targetVars, historyVars>>
  BY DEF OpenRegion, Running
<1>2. /\ WellListed(list) /\ EditsAtHome /\ Current(pages, mem)
      /\ unread \in BOOLEAN
      /\ ~unread /\ ~list[opened].dirty => base = mem[owner]
  BY <1>1 DEF RegionInv
<1>3. i \in Places
  BY <1>2 DEF WellListed
<1>4. /\ strayed' = FALSE
      /\ (DOMAIN mapped = Mapped /\ \A r \in Mapped : mapped[r] \in Perms)'
      /\ (\A r \in Regions : mem[r] = [s \in Slots |-> mem[r][s]])'
      /\ mem' = mem /\ unread' = unread
  BY <1>1 DEF RegionInv, targetVars, historyVars
<1>5. CASE StayInRegion(i)
  BY <1>1, <1>2, <1>4, <1>5
     DEF StayInRegion, sessionVars, docVars, RegionInv, EditsAtHome, Current, WellListed
<1>6. \A j \in DOMAIN Stashed : j \in Places /\ Stashed[j].of = list[j].id
  BY <1>2 DEF Stashed, EditsAtHome, With, Without
<1>7. CASE EnterRegion(i)
  <2>1. /\ list' = list /\ opened' = i /\ stash' = Without(Stashed, i)
        /\ ReadRegion(i, pages)
    BY <1>7 DEF EnterRegion
  <2>2. owner' = Saved(i).of /\ base' = ReadBytes(i, pages)
    BY <1>7 DEF EnterRegion, ShowRegion
  <2>3. Saved(i).of = list[i].id
    BY <1>6 DEF Saved, NoEdits
  <2>4. base' = mem'[owner'] /\ Current(pages', mem')
    BY <1>2, <1>3, <1>4, <2>1, <2>2, <2>3, ReadsCurrent
  <2>5. EditsAtHome'
    BY <1>3, <1>6, <2>1, <2>2, <2>3 DEF EditsAtHome, Without
  <2> QED BY <1>2, <1>4, <2>1, <2>4, <2>5 DEF RegionInv, WellListed
<1>8. CASE FailToEnter(i)
  <2>1. /\ UNCHANGED <<list, opened, owner, base>> /\ pages' = pages
        /\ stash' = Without(Stashed, i)
    BY <1>8 DEF FailToEnter, CannotRead
  <2>2. EditsAtHome'
    BY <1>2, <1>6, <2>1 DEF EditsAtHome, Without
  <2> QED BY <1>2, <1>4, <2>1, <2>2 DEF RegionInv, WellListed
<1> QED BY <1>5, <1>7, <1>8 DEF OpenRegion

\* As long as the target maps and unmaps nothing, a refresh finds every region
\* again, in its place.
LEMMA RefreshStep == RegionInv /\ Refresh => RegionInv'
<1> SUFFICES ASSUME RegionInv, Refresh
             PROVE  RegionInv'
  OBVIOUS
<1>1. /\ Running /\ Running'
      /\ UNCHANGED <<mapped, mem, stash, owner, base, strayed, unread>>
  BY DEF Refresh, Running, targetVars, docVars, historyVars
<1>2. /\ WellListed(list) /\ EditsAtHome /\ Current(pages, mem)
      /\ DOMAIN mapped = Mapped /\ unread \in BOOLEAN
      /\ \A r \in Mapped : mapped[r] \in Perms
      /\ ~unread /\ ~list[opened].dirty => base = mem[owner]
  BY <1>1 DEF RegionInv
<1>3. CASE UNCHANGED <<list, pages, opened>>
  BY <1>1, <1>3 DEF RegionInv, EditsAtHome, Current, WellListed
<1>4. CASE /\ list' = Refreshed /\ opened' = Clamped(opened)
           /\ pages' = [f \in DOMAIN pages \cap KeptFingerprints |-> pages[f]]
  <2> DEFINE ids == ById(Mapped)
             found == [i \in Places |-> Entry(ids[i])]
  <2>1. ids \in [Places -> Mapped] /\ \A i \in Places : list[i].id = ids[i]
    BY <1>2, Listing, MappedFinite DEF Places, WellListed
  <2>2. ASSUME NEW i \in Places
        PROVE  Entry(ids[i]) \in Entries /\ Entry(ids[i]).id = list[i].id
                  /\ Entry(ids[i]).dirty = list[i].dirty
    <3>1. {j \in DOMAIN list : list[j].id = ids[i]} = {i}
      BY <1>2, <2>1, ListedOnce DEF WellListed
    <3>2. list[i] \in Entries /\ list[i].id = ids[i] /\ mapped[ids[i]] \in Perms
      BY <1>2, <2>1 DEF WellListed
    <3>3. \/ Entry(ids[i]) = list[i]
          \/ Entry(ids[i]) = [list[i] EXCEPT !.stale = TRUE] /\ list[i].dirty
          \/ Entry(ids[i]) = Fresh(ids[i]) /\ ~list[i].dirty
      BY <3>1 DEF Entry
    <3>4. CASE Entry(ids[i]) = list[i]
      BY <2>1, <3>2, <3>4
    <3>5. CASE Entry(ids[i]) = [list[i] EXCEPT !.stale = TRUE]
      BY <2>1, <3>2, <3>5 DEF Entries
    <3>6. CASE Entry(ids[i]) = Fresh(ids[i]) /\ ~list[i].dirty
      <4>1. list[i].dirty = FALSE
        <5>1. list[i].dirty \in BOOLEAN
          BY <3>2 DEF Entries
        <5> QED BY <3>6, <5>1
      <4>2. Fresh(ids[i]) \in Entries /\ Fresh(ids[i]).id = ids[i]
              /\ Fresh(ids[i]).dirty = FALSE
        BY <2>1, <3>2 DEF Fresh, Entries
      <4> QED BY <3>2, <3>6, <4>1, <4>2
    <3> QED BY <3>3, <3>4, <3>5, <3>6
  <2>3. {i \in DOMAIN list : list[i].dirty /\ list[i].id \notin DOMAIN mapped} = {}
    BY <1>2 DEF WellListed, Entries
  <2>4. Refreshed = found
    <3> DEFINE lost == [i \in DOMAIN ById({}) |->
                            [list[ById({})[i]] EXCEPT !.stale = TRUE]]
    <3>1. ById({}) \in [1..0 -> {}]
      BY Listing, FS_EmptySet
    <3>2. DOMAIN lost = 1..0 /\ DOMAIN found = 1..Cardinality(Mapped)
      BY <3>1 DEF Places
    <3>3. Refreshed = found \o lost
      BY <1>2, <2>1, <2>3 DEF Refreshed
    <3> HIDE DEF found, lost
    <3>4. lost \in Seq(Entries) /\ Len(lost) = 0
      BY <3>1, <3>2 DEF lost
    <3>5. found \in Seq(Entries)
      BY <2>2, PlacesFinite DEF found, Places
    <3> QED BY <3>3, <3>4, <3>5
  <2>5. WellListed(list')
    BY <1>4, <2>1, <2>2, <2>4 DEF WellListed
  <2>6. opened' = opened
    <3>1. opened \in 1..Cardinality(Mapped) /\ Cardinality(Mapped) \in Nat
      BY <1>2, PlacesFinite DEF EditsAtHome, Places
    <3>2. Len(list') = Cardinality(Mapped)
      BY <2>5, <3>1 DEF WellListed, Places
    <3> QED BY <1>4, <3>1, <3>2 DEF Clamped, Least
  <2>7. \A i \in Places : list'[i].id = list[i].id /\ list'[i].dirty = list[i].dirty
    BY <1>4, <2>2, <2>4
  <2>8. EditsAtHome'
    BY <1>1, <1>2, <2>6, <2>7 DEF EditsAtHome
  <2>9. Current(pages', mem')
    BY <1>1, <1>2, <1>4 DEF Current
  <2>10. ~unread' /\ ~list'[opened'].dirty => base' = mem'[owner']
    BY <1>1, <1>2, <2>6, <2>7 DEF EditsAtHome
  <2> QED BY <1>1, <1>2, <2>5, <2>8, <2>9, <2>10 DEF RegionInv
<1> QED BY <1>3, <1>4 DEF Refresh

\* Attaching again keeps RegionInv.
LEMMA AttachStep == RegionInv /\ Attach => RegionInv'
<1> SUFFICES ASSUME RegionInv, Attach
             PROVE  RegionInv'
  OBVIOUS
<1>1. /\ list' = MappedList /\ opened' = FirstReadable(list')
      /\ owner' = list'[opened'].id /\ base' = mem[owner']
      /\ pages' = With(Empty, Fingerprint(list'[opened']), base')
      /\ stash' = Empty /\ unread' = FALSE
      /\ \E r \in DOMAIN mapped : mapped[r] # "none"
      /\ UNCHANGED <<mapped, mem, quit, strayed>>
  BY DEF Attach
<1>2. DOMAIN mapped = Mapped /\ \A r \in Mapped : mapped[r] \in Perms
  BY DEF RegionInv
<1>3. WellListed(list')
  BY <1>1, <1>2, Relisted DEF WellListed
<1>4. opened' \in Places
  BY <1>1, <1>2, Readable
<1>5. list'[opened'].id \in Mapped /\ list'[opened'].perm \in Perms
  BY <1>3, <1>4 DEF WellListed, Entries
<1>6. Current(pages', mem')
  <2>1. DOMAIN pages' = {<<list'[opened'].id, list'[opened'].perm>>}
    BY <1>1 DEF With, Empty, Fingerprint
  <2>2. pages'[<<list'[opened'].id, list'[opened'].perm>>] = base'
    BY <1>1 DEF With, Empty, Fingerprint
  <2> QED BY <1>1, <1>5, <2>1, <2>2 DEF Current
<1>7. EditsAtHome'
  BY <1>1, <1>4 DEF EditsAtHome, Empty
<1> QED BY <1>1, <1>2, <1>3, <1>6, <1>7 DEF RegionInv

\* Every step keeps RegionInv while no region is mapped or unmapped.
LEMMA RegionStep == "map" \notin Remaps => (RegionInv /\ [Next]_vars => RegionInv')
<1> SUFFICES ASSUME "map" \notin Remaps, RegionInv, [Next]_vars
             PROVE  RegionInv'
  OBVIOUS
<1> DEFINE Same == UNCHANGED <<mapped, mem, list, pages, opened, stash, owner,
                               base, strayed, unread, quit>>
<1>1. ASSUME Same
      PROVE  RegionInv'
  BY <1>1 DEF RegionInv, Running, WellListed, EditsAtHome, Current
<1>2. ASSUME NEW s \in Slots, NEW v \in Typed, Edit(s, v)
      PROVE  RegionInv'
  BY <1>1, <1>2 DEF Edit, targetVars, sessionVars, historyVars
<1>3. CASE Undo \/ Redo
  BY <1>1, <1>3 DEF Undo, Redo, targetVars, sessionVars, historyVars
<1>4. ASSUME NEW i \in DOMAIN list, Select(i)
      PROVE  RegionInv'
  BY <1>1, <1>4 DEF Select, targetVars, sessionVars, docVars, historyVars
<1>5. ASSUME NEW i \in DOMAIN list, OpenRegion(i)
      PROVE  RegionInv'
  BY <1>5, OpenStep
<1>6. CASE Commit \/ CommitAll
  BY <1>6, CommitStep, CommitAllStep
<1>7. CASE Refresh \/ Attach
  BY <1>7, RefreshStep, AttachStep
<1>8. CASE Freeze \/ Thaw
  BY <1>1, <1>8 DEF Freeze, Thaw, docVars, historyVars
<1>9. ASSUME NEW force \in BOOLEAN, Quit(force)
      PROVE  RegionInv'
  <2>1. ~Running'
    BY <1>9 DEF Quit, Running
  <2>2. UNCHANGED <<mapped, mem, strayed>>
    BY <1>9 DEF Quit
  <2> QED BY <2>1, <2>2 DEF RegionInv
<1>10. CASE Exit
  BY <1>1, <1>10 DEF Exit, sessionVars, docVars, historyVars
<1>11. ASSUME NEW r \in Regions, Remap(r)
       PROVE  RegionInv'
  <2>1. PICK p \in Perms : mapped' = [mapped EXCEPT ![r] = p]
    BY <1>11 DEF Remap
  <2>2. mem' = mem /\ r \in DOMAIN mapped
    BY <1>11 DEF Remap
  <2>3. (DOMAIN mapped = Mapped /\ \A x \in Mapped : mapped[x] \in Perms)'
    BY <2>1 DEF RegionInv
  <2>4. UNCHANGED <<list, pages, opened, stash, owner, base, strayed, unread, quit>>
    BY <1>11 DEF Remap, sessionVars, docVars, historyVars
  <2> QED BY <2>2, <2>3, <2>4 DEF RegionInv, Running, WellListed, EditsAtHome, Current
<1>12. CASE UNCHANGED vars
  BY <1>1, <1>12 DEF vars, targetVars, sessionVars, docVars, historyVars
<1> QED BY <1>2, <1>3, <1>4, <1>5, <1>6, <1>7, <1>8, <1>9, <1>10, <1>11, <1>12
        DEF Next

\* A commit writes where the user edited (memory_state.rs), through any sequence
\* of switches, refreshes and failures, if the target maps and unmaps nothing.
THEOREM CommitsGoHome == "map" \notin Remaps => (Spec => []CommitsWhereEdited)
<1> SUFFICES ASSUME "map" \notin Remaps
             PROVE  Spec => []CommitsWhereEdited
  OBVIOUS
<1>1. RegionInv => CommitsWhereEdited
  BY DEF RegionInv, CommitsWhereEdited
<1>2. RegionInv /\ [Next]_vars => RegionInv'
  BY RegionStep
<1> QED BY RegionStart, <1>1, <1>2, PTL DEF Spec

\* The open document shows its region as it is, through the page cache, unless a
\* commit ended early or could not read it again.
THEOREM ViewsAreCurrent == "map" \notin Remaps => (Spec => []ViewIsCurrent)
<1> SUFFICES ASSUME "map" \notin Remaps
             PROVE  Spec => []ViewIsCurrent
  OBVIOUS
<1>1. RegionInv => ViewIsCurrent
  BY DEF RegionInv, ViewIsCurrent
<1>2. RegionInv /\ [Next]_vars => RegionInv'
  BY RegionStep
<1> QED BY RegionStart, <1>1, <1>2, PTL DEF Spec

-----------------------------------------------------------------------------
(* Switching between regions. *)

\* The edits found for r are r's own, those that the stash or the document has.
LEMMA EditsFound ==
    ASSUME WellListed(list), EditsAtHome, NEW i \in Places
    PROVE  EditsOf(list[i].id) =
              IF i = opened THEN [of |-> list[i].id, spans |-> repl,
                                  undo |-> undo, redo |-> redo]
              ELSE IF i \in DOMAIN stash THEN stash[i] ELSE NoEdits(list[i].id)
<1> DEFINE r == list[i].id
           at == {j \in DOMAIN stash : stash[j].of = r}
<1>1. owner = r <=> i = opened
  BY ListedOnce DEF EditsAtHome
<1>2. at = {i} \cap DOMAIN stash
  BY ListedOnce DEF EditsAtHome
<1>3. CASE i = opened
  BY <1>1, <1>3 DEF EditsOf
<1>4. CASE i # opened
  <2>1. EditsOf(r) = IF at = {} THEN NoEdits(r) ELSE stash[CHOOSE j \in at : TRUE]
    BY <1>1, <1>4 DEF EditsOf
  <2>2. CASE i \in DOMAIN stash
    <3>1. at = {i}
      BY <1>2, <1>4, <2>2
    <3> HIDE DEF at
    <3>2. (CHOOSE j \in at : TRUE) = i
      BY <3>1
    <3> QED BY <1>4, <2>1, <2>2, <3>1, <3>2
  <2>3. CASE i \notin DOMAIN stash
    BY <1>2, <1>4, <2>1, <2>3
  <2> QED BY <2>2, <2>3
<1> QED BY <1>3, <1>4

\* The same for every region that is listed, and as an invariant.
EditsListed == WellListed(list) /\ EditsAtHome

FoundByPlace ==
    \A i \in Places, r \in Regions : list[i].id = r =>
        EditsOf(r) = IF i = opened THEN [of |-> r, spans |-> repl,
                                         undo |-> undo, redo |-> redo]
                     ELSE IF i \in DOMAIN stash THEN stash[i] ELSE NoEdits(r)

\* EditsFound, for all places at once.
LEMMA EditsFoundNow == EditsListed => FoundByPlace
BY EditsFound DEF EditsListed, FoundByPlace

\* EditsFound, in the next state.
LEMMA EditsFoundNext == EditsListed' => FoundByPlace'
BY EditsFoundNow, PTL

\* A region that is not listed has no edits.
LEMMA NothingFound ==
    ASSUME WellListed(list), EditsAtHome, NEW r, \A i \in Places : list[i].id # r
    PROVE  EditsOf(r) = NoEdits(r)
BY DEF EditsOf, EditsAtHome

\* Entering a region leaves the edits of every region where they are found.
LEMMA SwitchStep ==
    ASSUME RegionInv, RegionInv', opened' # opened, OpenRegion(opened'), NEW r \in Regions
    PROVE  KeepsEdits(r)
<1> DEFINE i == opened'
<1>1. Running /\ Running' /\ mem' = mem /\ unread' = unread
  BY DEF OpenRegion, Running, targetVars, historyVars
<1>2. EnterRegion(i)
  BY DEF OpenRegion, StayInRegion, FailToEnter
<1>3. /\ WellListed(list) /\ EditsAtHome /\ Current(pages, mem)
      /\ EditsListed'
  BY <1>1 DEF RegionInv, EditsListed, WellListed
<1>4. list' = list /\ stash' = Without(Stashed, i)
  BY <1>2 DEF EnterRegion
<1>5. i \in Places
  BY <1>3 DEF EditsListed, EditsAtHome
<1>6. /\ repl' = Applied(base', Saved(i).spans)
      /\ undo' = Saved(i).undo /\ redo' = Saved(i).redo
      /\ base' = mem[list[i].id]
  <2>1. ReadRegion(i, pages) /\ ShowRegion(i, pages, Saved(i))
    BY <1>2 DEF EnterRegion
  <2>2. ReadBytes(i, pages) = mem[list[i].id]
    BY <1>1, <1>3, <1>5, <2>1, ReadsCurrent
  <2> QED BY <2>1, <2>2 DEF ShowRegion
<1>7. CASE \A j \in Places : list[j].id # r
  <2>1. EditsOf(r) = NoEdits(r)
    BY <1>3, <1>7, NothingFound
  <2>2. EditsOf(r)' = NoEdits(r)
    BY <1>3, <1>4, <1>7 DEF EditsListed, EditsOf, EditsAtHome
  <2> QED BY <2>1, <2>2 DEF NoEdits, Empty, KeepsEdits
<1>8. ASSUME NEW j \in Places, list[j].id = r
      PROVE  /\ EditsOf(r)'.undo = EditsOf(r).undo
             /\ EditsOf(r)'.redo = EditsOf(r).redo
             /\ \A s \in DOMAIN EditsOf(r).spans :
                  LET v == EditsOf(r).spans[s]
                  IN  \/ s \in DOMAIN EditsOf(r)'.spans /\ EditsOf(r)'.spans[s] = v
                      \/ mem[r][s] = v
  <2>1. EditsOf(r) = IF j = opened THEN [of |-> r, spans |-> repl,
                                         undo |-> undo, redo |-> redo]
                     ELSE IF j \in DOMAIN stash THEN stash[j] ELSE NoEdits(r)
    BY <1>3, <1>8, EditsFound
  <2>2. EditsOf(r)' = IF j = i THEN [of |-> r, spans |-> repl',
                                     undo |-> undo', redo |-> redo']
                      ELSE IF j \in DOMAIN stash' THEN stash'[j] ELSE NoEdits(r)
    <3>1. FoundByPlace'
      BY <1>3, EditsFoundNext
    <3>2. list'[j].id = r
      BY <1>4, <1>8
    <3> QED BY <3>1, <3>2 DEF FoundByPlace, NoEdits
  <2>3. CASE j = i
    <3>1. Saved(i) = EditsOf(r)
      BY <1>8, <2>1, <2>3 DEF Saved, Stashed, With, Without
    <3>2. EditsOf(r)' = [of |-> r, spans |-> repl', undo |-> undo', redo |-> redo']
      BY <2>2, <2>3
    <3>3. ASSUME NEW s \in DOMAIN EditsOf(r).spans
          PROVE  LET v == EditsOf(r).spans[s]
                 IN  \/ s \in DOMAIN repl' /\ repl'[s] = v
                     \/ mem[r][s] = v
      BY <1>6, <1>8, <2>3, <3>1 DEF Applied
    <3> QED BY <1>6, <3>1, <3>2, <3>3
  <2>4. CASE j # i
    <3>1. EditsOf(r)'.undo = EditsOf(r).undo /\ EditsOf(r)'.redo = EditsOf(r).redo
            /\ EditsOf(r)'.spans = EditsOf(r).spans
      <4>1. CASE j = opened
        <5>1. CASE repl = Empty /\ undo = <<>> /\ redo = <<>>
          <6>1. j \notin DOMAIN stash'
            BY <1>4, <4>1, <5>1 DEF Stashed, Without
          <6> QED BY <2>1, <2>2, <2>4, <4>1, <5>1, <6>1 DEF NoEdits
        <5>2. CASE ~ (repl = Empty /\ undo = <<>> /\ redo = <<>>)
          <6>1. j \in DOMAIN stash' /\ stash'[j] = [of |-> owner, spans |-> repl,
                                                   undo |-> undo, redo |-> redo]
            BY <1>4, <2>4, <4>1, <5>2 DEF Stashed, With, Without
          <6> QED BY <2>1, <2>2, <2>4, <4>1, <6>1
        <5> QED BY <5>1, <5>2
      <4>2. CASE j # opened
        <5>1. (j \in DOMAIN stash' <=> j \in DOMAIN stash)
                /\ (j \in DOMAIN stash => stash'[j] = stash[j])
          BY <1>4, <2>4, <4>2 DEF Stashed, With, Without
        <5> QED BY <2>1, <2>2, <2>4, <4>2, <5>1
      <4> QED BY <4>1, <4>2
    <3> QED BY <3>1
  <2> QED BY <2>3, <2>4
<1> QED BY <1>1, <1>7, <1>8 DEF KeepsEdits, ByteKept

\* A region that cannot be entered: the edits of all but two are where they were.
LEMMA FailedSwitchStep ==
    ASSUME RegionInv, RegionInv', NEW i \in DOMAIN list, OpenRegion(i), FailToEnter(i),
           NEW r \in Regions, r \notin {owner, list[i].id}
    PROVE  KeepsEdits(r)
<1>1. UNCHANGED <<list, opened, owner>> /\ stash' = Without(Stashed, i)
  BY DEF FailToEnter
<1>2. Running /\ WellListed(list) /\ EditsAtHome /\ EditsListed'
  BY DEF RegionInv, EditsListed, OpenRegion, targetVars, Running
<1>3. CASE \A j \in Places : list[j].id # r
  <2>1. EditsOf(r) = NoEdits(r)
    BY <1>2, <1>3, NothingFound
  <2>2. EditsOf(r)' = NoEdits(r)
    BY <1>1, <1>2, <1>3 DEF EditsListed, EditsOf, EditsAtHome
  <2> QED BY <2>1, <2>2 DEF NoEdits, Empty, KeepsEdits
<1>4. ASSUME NEW j \in Places, list[j].id = r
      PROVE  EditsOf(r)' = EditsOf(r)
  <2>1. j # i /\ j # opened
    BY <1>2, <1>4 DEF EditsAtHome
  <2>2. EditsOf(r) = IF j \in DOMAIN stash THEN stash[j] ELSE NoEdits(r)
    BY <1>2, <1>4, <2>1, EditsFound
  <2>3. EditsOf(r)' = IF j \in DOMAIN stash' THEN stash'[j] ELSE NoEdits(r)
    <3>1. FoundByPlace' /\ list'[j].id = r /\ j # opened'
      BY <1>1, <1>2, <1>4, <2>1, EditsFoundNext
    <3> QED BY <3>1 DEF FoundByPlace, NoEdits
  <2>4. (j \in DOMAIN stash' <=> j \in DOMAIN stash)
          /\ (j \in DOMAIN stash => stash'[j] = stash[j])
    BY <1>1, <2>1 DEF Stashed, With, Without
  <2> QED BY <2>2, <2>3, <2>4
<1>5. CASE \E j \in Places : list[j].id = r
  <2>1. EditsOf(r)' = EditsOf(r)
    BY <1>4, <1>5
  <2> QED BY <2>1 DEF KeepsEdits, ByteKept
<1> QED BY <1>3, <1>5

\* The three ways in which going to a region ends.
LEMMA SwitchKeeps ==
    ASSUME RegionInv, RegionInv', NEW i \in DOMAIN list, OpenRegion(i), NEW r \in Regions
    PROVE  KeepsEdits(r) \/ (FailToEnter(i) /\ r \in {owner, list[i].id})
<1>1. CASE StayInRegion(i)
  <2>1. EditsOf(r)' = EditsOf(r)
    BY <1>1 DEF StayInRegion, docVars, EditsOf
  <2> QED BY <2>1 DEF KeepsEdits, ByteKept
<1>2. CASE EnterRegion(i)
  <2>1. opened' = i /\ opened' # opened /\ OpenRegion(opened')
    BY <1>2 DEF EnterRegion
  <2> QED BY <2>1, SwitchStep
<1>3. ASSUME FailToEnter(i), r \notin {owner, list[i].id}
      PROVE  KeepsEdits(r)
  BY <1>3, FailedSwitchStep
<1>4. StayInRegion(i) \/ EnterRegion(i) \/ FailToEnter(i)
  BY DEF OpenRegion
<1> QED BY <1>1, <1>2, <1>3, <1>4

\* Going to a region takes no edit away, for any number of regions with stashed
\* edits; one that cannot be read disturbs only itself and the open one.
THEOREM SwitchesKeepEdits == "map" \notin Remaps => (Spec => SwitchKeepsEdits)
<1> SUFFICES ASSUME "map" \notin Remaps
             PROVE  Spec => SwitchKeepsEdits
  OBVIOUS
<1>1. RegionInv /\ [Next]_vars => RegionInv'
  BY RegionStep
<1>2. RegionInv /\ RegionInv' =>
        [ \A i \in DOMAIN list : OpenRegion(i) =>
            \A r \in Regions :
                KeepsEdits(r) \/ (FailToEnter(i) /\ r \in {owner, list[i].id}) ]_vars
  BY SwitchKeeps, Zenon
<1> QED BY RegionStart, <1>1, <1>2, PTL DEF Spec, SwitchKeepsEdits

-----------------------------------------------------------------------------
(* Committing everything. *)

\* A document that was read again without edits has none.
LEMMA NothingApplied == \A b : Applied(b, Empty) = Empty
<1> SUFFICES ASSUME NEW b
             PROVE  Applied(b, Empty) = Empty
  OBVIOUS
<1>1. {s \in DOMAIN Empty : Empty[s] # b[s]} = {}
  BY DEF Empty
<1> QED BY <1>1 DEF Applied, Empty

\* A region that is still pending keeps those with higher addresses pending.
LEMMA OrderStep ==
    ASSUME RegionInv, CommitAll,
           NEW i \in DOMAIN Pending \cap DOMAIN list,
           NEW j \in DOMAIN Pending \cap DOMAIN list,
           list[i].id < list[j].id, j \notin DOMAIN Pending'
    PROVE  i \notin DOMAIN Pending' \/ unread'
<1>1. opened' = opened
  BY DEF CommitAll
<1>2. PICK written, done :
        /\ \A x, y \in DOMAIN Pending \cap DOMAIN list :
            list[x].id < list[y].id /\ y \in done => x \in done
        /\ stash' = [x \in DOMAIN stash \ (done \ {opened}) |-> stash[x]]
        /\ \/ opened \in done /\ Reopen(PagesWith(written))
           \/ opened \notin done /\ StopWriting(written)
  BY CommitAllParts, Zenon
<1>3. \A x : x \in DOMAIN Pending <=>
                \/ x = opened /\ repl # Empty
                \/ x \in DOMAIN stash \ {opened} /\ stash[x].spans # Empty
  BY DEF Pending
<1>4. \A x : x \in DOMAIN Pending' <=>
                \/ x = opened /\ repl' # Empty
                \/ x \in DOMAIN stash' \ {opened} /\ stash'[x].spans # Empty
  BY <1>1 DEF Pending
<1>5. j \in done
  <2> SUFFICES ASSUME j \notin done
               PROVE  FALSE
    OBVIOUS
  <2>1. CASE j = opened
    <3>1. repl' = repl
      BY <1>2, <2>1 DEF StopWriting, docVars
    <3> QED BY <1>3, <1>4, <2>1, <3>1
  <2>2. CASE j # opened
    BY <1>2, <1>3, <1>4, <2>2
  <2> QED BY <2>1, <2>2
<1>6. i \in done
  BY <1>2, <1>5
<1>7. CASE i # opened
  BY <1>2, <1>4, <1>6, <1>7
<1>8. CASE i = opened
  <2>1. Reopen(PagesWith(written))
    BY <1>2, <1>6, <1>8
  <2>2. CASE unread' = TRUE
    BY <2>2
  <2>3. CASE ShowRegion(opened, PagesWith(written), NoEdits(list[opened].id))
    <3>1. repl' = Applied(base', Empty)
      BY <2>3 DEF ShowRegion, NoEdits
    <3>2. repl' = Empty
      BY <3>1, NothingApplied
    <3> QED BY <1>2, <1>4, <1>8, <3>2
  <2> QED BY <2>1, <2>2, <2>3 DEF Reopen
<1> QED BY <1>7, <1>8

\* :mem commit-all goes by address and stops at the first region it cannot write,
\* for any number of regions with edits.
THEOREM CommitsByAddress == "map" \notin Remaps => (Spec => CommitsInOrder)
<1> SUFFICES ASSUME "map" \notin Remaps
             PROVE  Spec => CommitsInOrder
  OBVIOUS
<1>1. RegionInv /\ [Next]_vars => RegionInv'
  BY RegionStep
<1>2. RegionInv =>
        [ mem' # mem /\ CommitAll =>
            \A i, j \in DOMAIN Pending \cap DOMAIN list :
                list[i].id < list[j].id /\ j \notin DOMAIN Pending'
                    => i \notin DOMAIN Pending' \/ unread' ]_vars
  BY OrderStep
<1> QED BY RegionStart, <1>1, <1>2, PTL DEF Spec, CommitsInOrder

-----------------------------------------------------------------------------
(* Types. *)

SpansOK(spans) ==
    DOMAIN spans \subseteq Slots /\ \A s \in DOMAIN spans : spans[s] \in Values

StepsOK(steps) == steps \in Seq(Step)

\* The edits of a region, as they are put away.
EditsOK(edits) ==
    edits.of \in Regions /\ SpansOK(edits.spans) /\ StepsOK(edits.undo) /\ StepsOK(edits.redo)

\* TypeOK asks nothing of what is in a stash, where a region's edits come from;
\* Held does, and Listed is what is left of TypeOK once RegionInv is known.
Held ==
    /\ mem \in [Regions -> [Slots -> Values]] /\ base \in [Slots -> Values]
    /\ SpansOK(repl) /\ StepsOK(undo) /\ StepsOK(redo)
    /\ \A i \in DOMAIN stash : EditsOK(stash[i]) /\ stash[i] # NoEdits(stash[i].of)

Listed ==
    /\ Running => selected \in Places
    /\ ~Running => list = <<>>
    /\ depth \in Nat /\ quit \in {"no", "clean", "forced"}

\* RegionInv has the rest.
LEMMA TypeFollows == RegionInv /\ Held /\ Listed => TypeOK
<1> SUFFICES ASSUME RegionInv, Held, Listed
             PROVE  TypeOK
  OBVIOUS
<1>1. DOMAIN mapped \subseteq Regions
  BY MappedFinite DEF RegionInv
<1>2. Running => /\ opened \in DOMAIN list /\ selected \in DOMAIN list
                 /\ owner \in Regions
  BY MappedFinite DEF RegionInv, Listed, EditsAtHome, WellListed, Entries
<1>3. \A i, j \in DOMAIN list : list[i].id = list[j].id => i = j
  <2>1. CASE Running
    <3>1. WellListed(list) /\ DOMAIN list = Places
      BY <2>1 DEF RegionInv, WellListed
    <3> QED BY <3>1, ListedOnce
  <2>2. CASE ~Running
    BY <2>2 DEF Listed
  <2> QED BY <2>1, <2>2
<1> QED BY <1>1, <1>2, <1>3
        DEF TypeOK, Held, Listed, SpansOK, StepsOK, EditsOK

\* Nothing is edited when a session starts.
LEMMA NothingHeld == SpansOK(Empty) /\ StepsOK(<<>>) /\ Blank \in [Slots -> Values]
BY DEF SpansOK, StepsOK, Empty, Blank, Values

LEMMA TypesStart == Init => Held /\ Listed
<1> SUFFICES ASSUME Init
             PROVE  Held /\ Listed
  OBVIOUS
<1>1. /\ mem = [r \in Regions |-> Blank] /\ base = mem[owner] /\ repl = Empty
      /\ undo = <<>> /\ redo = <<>> /\ stash = Empty /\ quit = "no" /\ depth = 0
      /\ selected = opened /\ owner = list[opened].id
  BY DEF Init
<1>2. WellListed(list) /\ opened \in Places
  BY <1>1, RegionStart DEF RegionInv, Running, EditsAtHome
<1>3. owner \in Regions
  BY <1>1, <1>2, MappedFinite DEF WellListed, Entries
<1>4. Held
  BY <1>1, <1>3, NothingHeld DEF Held, Empty
<1>5. Listed
  BY <1>1, <1>2 DEF Listed, Running
<1> QED BY <1>4, <1>5

\* A refresh keeps the cursor in the maps panel, as the list keeps its length.
LEMMA ListedStep ==
    ASSUME RegionInv, RegionInv', Listed, [Next]_vars
    PROVE  Listed'
<1> USE DEF Listed, targetVars, sessionVars, docVars, historyVars, Running
<1>1. ASSUME NEW s \in Slots, NEW v \in Typed, Edit(s, v)
      PROVE  Listed'
  BY <1>1 DEF Edit
<1>2. CASE Undo \/ Redo
  BY <1>2 DEF Undo, Redo
<1>3. ASSUME NEW i \in DOMAIN list, Select(i)
      PROVE  Listed'
  BY <1>3 DEF Select, RegionInv, WellListed
<1>4. ASSUME NEW i \in DOMAIN list, OpenRegion(i)
      PROVE  Listed'
  BY <1>4 DEF OpenRegion, StayInRegion, EnterRegion, FailToEnter, RegionInv, WellListed
<1>5. CASE Commit \/ CommitAll
  <2>1. UNCHANGED <<quit, selected, depth>> /\ Running
    BY <1>5 DEF Commit, CommitAll
  <2> QED BY <2>1
<1>6. CASE Refresh
  <2>1. UNCHANGED <<quit, depth>> /\ Running
    BY <1>6 DEF Refresh
  <2>2. CASE selected' = selected
    BY <2>1, <2>2
  <2>3. CASE selected' = Clamped(selected)
    <3>1. WellListed(list') /\ Cardinality(Mapped) \in Nat
      BY <2>1, PlacesFinite DEF RegionInv
    <3>2. Len(list') = Cardinality(Mapped)
      BY <3>1 DEF WellListed, Places
    <3>3. selected \in 1..Cardinality(Mapped)
      BY <2>1 DEF Places
    <3>4. selected' = selected
      BY <2>3, <3>1, <3>2, <3>3 DEF Clamped, Least
    <3> QED BY <2>1, <3>4
  <2> QED BY <1>6, <2>2, <2>3 DEF Refresh
<1>7. CASE Freeze
  BY <1>7 DEF Freeze
<1>8. CASE Thaw
  BY <1>8 DEF Thaw
<1>9. CASE Attach
  BY <1>9 DEF Attach, RegionInv, EditsAtHome
<1>10. ASSUME NEW force \in BOOLEAN, Quit(force)
       PROVE  Listed'
  BY <1>10 DEF Quit
<1>11. CASE Exit
  BY <1>11 DEF Exit
<1>12. ASSUME NEW r \in Regions, Remap(r)
       PROVE  Listed'
  BY <1>12 DEF Remap
<1>13. CASE UNCHANGED vars
  BY <1>13 DEF vars
<1> QED BY <1>1, <1>2, <1>3, <1>4, <1>5, <1>6, <1>7, <1>8, <1>9, <1>10, <1>11,
           <1>12, <1>13 DEF Next

\* The spans that a commit writes are bytes of the places that were edited.
LEMMA WritesBytes ==
    ASSUME RegionInv, Held, Running, NEW written,
           DOMAIN written \subseteq DOMAIN Pending \cap Places,
           \A i \in DOMAIN written :
                \E n \in Int : n <= Spans(i) /\ written[i] = FirstSlots(i, n)
    PROVE  MemWith(written) \in [Regions -> [Slots -> Values]]
<1>1. ASSUME NEW i \in DOMAIN Pending
      PROVE  SpansOK(Pending[i])
  <2>1. \/ i = opened /\ Pending[i] = repl
        \/ i \in DOMAIN stash /\ Pending[i] = stash[i].spans
    BY DEF Pending
  <2> QED BY <2>1 DEF Held, EditsOK
<1>2. ASSUME NEW i \in DOMAIN written
      PROVE  written[i] \subseteq DOMAIN Pending[i]
  <2>1. DOMAIN Pending[i] \in SUBSET Nat /\ IsFiniteSet(DOMAIN Pending[i])
    BY <1>1, MemoryConstants, FS_Subset DEF SpansOK
  <2>2. ById(DOMAIN Pending[i]) \in [1..Spans(i) -> DOMAIN Pending[i]] /\ Spans(i) \in Nat
    BY <2>1, Listing, FS_CardinalityType DEF Spans
  <2>3. PICK n \in Int : n <= Spans(i) /\ written[i] = FirstSlots(i, n)
    OBVIOUS
  <2>4. \A k \in 1..n : ById(DOMAIN Pending[i])[k] \in DOMAIN Pending[i]
    BY <2>2, <2>3
  <2> QED BY <2>3, <2>4 DEF FirstSlots
<1>3. ASSUME NEW r \in Regions, NEW s \in Slots
      PROVE  Overwritten(mem[r], r, written)[s] \in Values
  <2> DEFINE by == {i \in DOMAIN written : list[i].id = r /\ s \in written[i]}
  <2>1. Overwritten(mem[r], r, written)[s] =
            IF by = {} THEN mem[r][s] ELSE Pending[CHOOSE i \in by : TRUE][s]
    BY DEF Overwritten
  <2>2. CASE by = {}
    BY <2>1, <2>2 DEF Held
  <2>3. CASE by # {}
    <3>1. (CHOOSE i \in by : TRUE) \in by
      BY <2>3
    <3> QED BY <1>1, <1>2, <2>1, <2>3, <3>1 DEF SpansOK
  <2> QED BY <2>2, <2>3
<1>4. \A r \in Regions : Overwritten(mem[r], r, written) \in [Slots -> Values]
  BY <1>3 DEF Overwritten
<1> QED BY <1>4 DEF MemWith

\* A commit keeps the types, wherever it ends.
LEMMA CommitHeld ==
    ASSUME RegionInv, Held, Running, NEW written, NEW done,
           DOMAIN written \subseteq DOMAIN Pending \cap Places,
           \A i \in DOMAIN written :
                \E n \in Int : n <= Spans(i) /\ written[i] = FirstSlots(i, n),
           done \subseteq DOMAIN written, WriteSpans(written, done),
           Reopen(PagesWith(written)) \/ StopWriting(written),
           DOMAIN stash' \subseteq DOMAIN stash,
           \A i \in DOMAIN stash' : stash'[i] = stash[i]
    PROVE  Held'
<1> DEFINE held == PagesWith(written)
<1>1. mem' \in [Regions -> [Slots -> Values]]
  BY WritesBytes DEF WriteSpans
<1>2. \A i \in DOMAIN stash' : EditsOK(stash'[i]) /\ stash'[i] # NoEdits(stash'[i].of)
  BY DEF Held
<1>3. base' \in [Slots -> Values] /\ SpansOK(repl') /\ StepsOK(undo') /\ StepsOK(redo')
  <2>1. CASE UNCHANGED docVars
    BY <2>1 DEF Held, docVars
  <2>2. CASE /\ ReadRegion(opened, held)
             /\ ShowRegion(opened, held, NoEdits(list[opened].id))
    <3>1. WellListed(list) /\ opened \in Places
      BY DEF RegionInv, EditsAtHome
    <3>2. DOMAIN held = DOMAIN pages /\ Current(held, mem')
      BY Writes
    <3> HIDE DEF held
    <3>3. base' = mem'[list[opened].id] /\ list[opened].id \in Regions
      BY <2>2, <3>1, <3>2, ReadsCurrent, MappedFinite
         DEF ShowRegion, WellListed, Entries
    <3>4. repl' = Empty /\ undo' = <<>> /\ redo' = <<>>
      BY <2>2, NothingApplied DEF ShowRegion, NoEdits
    <3> QED BY <1>1, <3>3, <3>4, NothingHeld
  <2> QED BY <2>1, <2>2 DEF Reopen, StopWriting
<1> QED BY <1>1, <1>2, <1>3 DEF Held, EditsOK, SpansOK, StepsOK

\* Putting a replacement back, or taking it away.
LEMMA RestoredOK ==
    ASSUME NEW spans, SpansOK(spans), NEW s \in Slots, NEW v \in Values \cup {None}
    PROVE  SpansOK(Restored(spans, s, v)) /\ Replacement(spans, s) \in Values \cup {None}
BY DEF SpansOK, Restored, Replacement, With, Without

\* The last step of a history, and those before it.
LEMMA LastStep ==
    ASSUME NEW steps, StepsOK(steps), steps # <<>>
    PROVE  Last(steps) \in Step /\ StepsOK(Front(steps))
BY DEF StepsOK, Last, Front

\* Every step keeps the types.
LEMMA HeldStep ==
    ASSUME RegionInv, Held, [Next]_vars
    PROVE  Held'
<1> DEFINE Same == UNCHANGED <<mem, stash, base, repl, undo, redo>>
<1>1. ASSUME Same
      PROVE  Held'
  BY <1>1 DEF Held, EditsOK, SpansOK, StepsOK
<1>2. ASSUME SpansOK(repl'), StepsOK(undo'), StepsOK(redo'),
             UNCHANGED <<mem, stash, base>>
      PROVE  Held'
  BY <1>2 DEF Held, EditsOK, SpansOK, StepsOK
<1>3. ASSUME NEW s \in Slots, NEW v \in Typed, Edit(s, v)
      PROVE  Held'
  <2>1. repl' = Replaced(base, repl, s, v) /\ SpansOK(repl) /\ v \in Values
    BY <1>3 DEF Edit, Held, Values
  <2>2. SpansOK(repl')
    BY <2>1 DEF Replaced, SpansOK, With, Without
  <2>3. /\ Replacement(repl, s) \in Values \cup {None}
        /\ Replacement(repl', s) \in Values \cup {None}
    BY <2>1, <2>2 DEF SpansOK, Replacement
  <2>4. [slot |-> s, before |-> Replacement(repl, s),
         after |-> Replacement(repl', s)] \in Step
    BY <2>3 DEF Step
  <2>5. StepsOK(undo') /\ StepsOK(redo')
    BY <1>3, <2>4 DEF Edit, Held, StepsOK
  <2>6. UNCHANGED <<mem, stash, base>>
    BY <1>3 DEF Edit, targetVars
  <2> QED BY <1>2, <2>2, <2>5, <2>6
<1>4. CASE Undo
  <2>1. Last(undo) \in Step /\ StepsOK(Front(undo))
    BY <1>4, LastStep DEF Undo, Held
  <2>2. repl' = Restored(repl, Last(undo).slot, Last(undo).before)
    BY <1>4 DEF Undo
  <2>3. SpansOK(repl')
    BY <2>1, <2>2, RestoredOK DEF Step, Held
  <2>4. StepsOK(undo') /\ StepsOK(redo')
    BY <1>4, <2>1 DEF Undo, Held, StepsOK
  <2>5. UNCHANGED <<mem, stash, base>>
    BY <1>4 DEF Undo, targetVars
  <2> QED BY <1>2, <2>3, <2>4, <2>5
<1>5. CASE Redo
  <2>1. Last(redo) \in Step /\ StepsOK(Front(redo))
    BY <1>5, LastStep DEF Redo, Held
  <2>2. repl' = Restored(repl, Last(redo).slot, Last(redo).after)
    BY <1>5 DEF Redo
  <2>3. SpansOK(repl')
    BY <2>1, <2>2, RestoredOK DEF Step, Held
  <2>4. StepsOK(undo') /\ StepsOK(redo')
    BY <1>5, <2>1 DEF Redo, Held, StepsOK
  <2>5. UNCHANGED <<mem, stash, base>>
    BY <1>5 DEF Redo, targetVars
  <2> QED BY <1>2, <2>3, <2>4, <2>5
<1>6. ASSUME NEW i \in DOMAIN list, Select(i)
      PROVE  Held'
  BY <1>1, <1>6 DEF Select, targetVars, docVars
<1>7. ASSUME NEW i \in DOMAIN list, OpenRegion(i)
      PROVE  Held'
  <2>1. Running /\ mem' = mem
    BY <1>7 DEF OpenRegion, targetVars
  <2>2. WellListed(list) /\ Current(pages, mem) /\ owner \in Regions
    BY <2>1, MappedFinite DEF RegionInv, EditsAtHome, WellListed, Entries
  <2>3. i \in Places /\ list[i].id \in Regions
    BY <2>2, MappedFinite DEF WellListed, Entries
  <2>4. \A j \in DOMAIN Stashed :
            EditsOK(Stashed[j]) /\ Stashed[j] # NoEdits(Stashed[j].of)
    <3>1. CASE repl = Empty /\ undo = <<>> /\ redo = <<>>
      BY <3>1 DEF Stashed, Without, Held
    <3>2. CASE ~ (repl = Empty /\ undo = <<>> /\ redo = <<>>)
      <4> DEFINE e == [of |-> owner, spans |-> repl, undo |-> undo, redo |-> redo]
      <4>1. EditsOK(e) /\ e # NoEdits(e.of)
        BY <2>2, <3>2 DEF Held, EditsOK, NoEdits
      <4> HIDE DEF e
      <4>2. Stashed = With(stash, opened, e)
        BY <3>2 DEF Stashed, e
      <4> QED BY <4>1, <4>2 DEF With, Held
    <3> QED BY <3>1, <3>2
  <2>5. ASSUME stash' = Without(Stashed, i)
        PROVE  \A j \in DOMAIN stash' :
                    EditsOK(stash'[j]) /\ stash'[j] # NoEdits(stash'[j].of)
    BY <2>4, <2>5 DEF Without
  <2>6. CASE StayInRegion(i)
    BY <1>1, <2>1, <2>6 DEF StayInRegion, docVars
  <2>7. CASE EnterRegion(i)
    <3>1. /\ ReadRegion(i, pages) /\ ShowRegion(i, pages, Saved(i))
          /\ stash' = Without(Stashed, i)
      BY <2>7 DEF EnterRegion
    <3>2. base' = mem[list[i].id]
      BY <2>1, <2>2, <2>3, <3>1, ReadsCurrent DEF ShowRegion
    <3>3. EditsOK(Saved(i))
      BY <2>3, <2>4, NothingHeld DEF Saved, NoEdits, EditsOK
    <3>4. SpansOK(repl') /\ StepsOK(undo') /\ StepsOK(redo')
      BY <3>1, <3>3 DEF ShowRegion, Applied, EditsOK, SpansOK
    <3> QED BY <2>1, <2>3, <2>5, <3>1, <3>2, <3>4 DEF Held, EditsOK, SpansOK, StepsOK
  <2>8. CASE FailToEnter(i)
    <3>1. /\ UNCHANGED <<base, repl>> /\ undo' = <<>> /\ redo' = <<>>
          /\ stash' = Without(Stashed, i)
      BY <2>8 DEF FailToEnter
    <3> QED BY <2>1, <2>5, <3>1, NothingHeld DEF Held, EditsOK, SpansOK, StepsOK
  <2> QED BY <1>7, <2>6, <2>7, <2>8 DEF OpenRegion
<1>8. CASE Commit
  <2>1. Running /\ opened \in DOMAIN Pending \cap Places
    BY <1>8 DEF Commit, Pending, RegionInv, EditsAtHome
  <2>2. PICK n \in 0..Spans(opened) :
            LET written == [i \in {opened} |-> FirstSlots(opened, n)]
            IN  \/ /\ n < Spans(opened)
                   /\ WriteSpans(written, {}) /\ StopWriting(written)
                   /\ stash' = stash
                \/ /\ n = Spans(opened)
                   /\ WriteSpans(written, {opened}) /\ Reopen(PagesWith(written))
                   /\ stash' = Without(stash, opened)
    BY <1>8, Zenon DEF Commit
  <2> DEFINE written == [i \in {opened} |-> FirstSlots(opened, n)]
  <2>3. DOMAIN written = {opened} /\ \A i \in DOMAIN written :
            \E m \in Int : m <= Spans(i) /\ written[i] = FirstSlots(i, m)
    <3>1. n \in Int /\ n <= Spans(opened)
      BY <2>2
    <3> QED BY <3>1
  <2>4. CASE WriteSpans(written, {}) /\ StopWriting(written) /\ stash' = stash
    <3> HIDE DEF written
    <3> QED BY <2>1, <2>3, <2>4, CommitHeld
  <2>5. CASE /\ WriteSpans(written, {opened}) /\ Reopen(PagesWith(written))
             /\ stash' = Without(stash, opened)
    <3> HIDE DEF written
    <3>1. DOMAIN stash' \subseteq DOMAIN stash
            /\ \A i \in DOMAIN stash' : stash'[i] = stash[i]
      BY <2>5 DEF Without
    <3> QED BY <2>1, <2>3, <2>5, <3>1, CommitHeld
  <2> QED BY <2>2, <2>4, <2>5, Zenon
<1>9. CASE CommitAll
  <2>1. PICK written, done :
            /\ DOMAIN written \subseteq DOMAIN Pending \cap Places
            /\ done \subseteq DOMAIN written
            /\ \A i \in DOMAIN written :
                \/ i \in done /\ written[i] = FirstSlots(i, Spans(i))
                \/ \E n \in 0..(Spans(i) - 1) : written[i] = FirstSlots(i, n)
            /\ WriteSpans(written, done)
            /\ stash' = [i \in DOMAIN stash \ (done \ {opened}) |-> stash[i]]
            /\ \/ opened \in done /\ Reopen(PagesWith(written))
               \/ opened \notin done /\ StopWriting(written)
    BY <1>9, CommitAllParts, Zenon
  <2>2. Running
    BY <1>9 DEF CommitAll
  <2>3. ASSUME NEW i \in DOMAIN written
        PROVE  \E n \in Int : n <= Spans(i) /\ written[i] = FirstSlots(i, n)
    <3>1. Pending[i] = repl \/ (i \in DOMAIN stash /\ Pending[i] = stash[i].spans)
      BY <2>1 DEF Pending
    <3>2. DOMAIN Pending[i] \subseteq Slots
      BY <3>1 DEF Held, EditsOK, SpansOK
    <3>3. Spans(i) \in Nat
      BY <3>2, MemoryConstants, FS_Subset, FS_CardinalityType DEF Spans
    <3> QED BY <2>1, <3>3
  <2>4. DOMAIN stash' \subseteq DOMAIN stash /\ \A i \in DOMAIN stash' : stash'[i] = stash[i]
    BY <2>1
  <2> QED BY <2>1, <2>2, <2>3, <2>4, CommitHeld
<1>10. CASE Refresh \/ Freeze \/ Thaw
  BY <1>1, <1>10 DEF Refresh, Freeze, Thaw, targetVars, docVars
<1>11. CASE Attach
  <2>1. /\ base' = mem[owner'] /\ owner' = list'[opened'].id /\ mem' = mem
        /\ repl' = Empty /\ undo' = <<>> /\ redo' = <<>> /\ stash' = Empty
    BY <1>11 DEF Attach
  <2>2. owner' \in Regions
    <3>1. WellListed(list')
      BY <1>11, Relisted DEF Attach, RegionInv, WellListed
    <3>2. opened' \in Places
      BY <1>11, Readable DEF Attach, RegionInv
    <3> QED BY <2>1, <3>1, <3>2, MappedFinite DEF WellListed, Entries
  <2> QED BY <2>1, <2>2, NothingHeld DEF Held, SpansOK, StepsOK, Empty
<1>12. ASSUME NEW force \in BOOLEAN, Quit(force)
       PROVE  Held'
  <2>1. /\ base' = Blank /\ mem' = mem
        /\ repl' = Empty /\ undo' = <<>> /\ redo' = <<>> /\ stash' = Empty
    BY <1>12 DEF Quit
  <2> QED BY <2>1, NothingHeld DEF Held, SpansOK, StepsOK, Empty
<1>13. CASE Exit
  BY <1>1, <1>13 DEF Exit, docVars
<1>14. ASSUME NEW r \in Regions, Remap(r)
       PROVE  Held'
  <2>1. UNCHANGED <<stash, base, repl, undo, redo>>
    BY <1>14 DEF Remap, docVars
  <2>2. mem' = mem \/ mem' = [mem EXCEPT ![r] = Blank]
    BY <1>14 DEF Remap
  <2>3. mem' \in [Regions -> [Slots -> Values]]
    BY <2>2, NothingHeld DEF Held
  <2> QED BY <2>1, <2>3 DEF Held, EditsOK, SpansOK, StepsOK
<1>15. CASE UNCHANGED vars
  BY <1>1, <1>15 DEF vars, targetVars, docVars
<1> QED BY <1>3, <1>4, <1>5, <1>6, <1>7, <1>8, <1>9, <1>10, <1>11, <1>12, <1>13,
           <1>14, <1>15 DEF Next

\* Every variable of the session keeps its type: the indexes stay in the list, a
\* region is listed once, and no stash is empty.
THEOREM MemoryTypes == "map" \notin Remaps => (Spec => []TypeOK)
<1> SUFFICES ASSUME "map" \notin Remaps
             PROVE  Spec => []TypeOK
  OBVIOUS
<1>1. RegionInv /\ [Next]_vars => RegionInv'
  BY RegionStep
<1>2. RegionInv /\ RegionInv' /\ Held /\ Listed /\ [Next]_vars => Held' /\ Listed'
  BY HeldStep, ListedStep
<1> QED BY RegionStart, TypesStart, TypeFollows, <1>1, <1>2, PTL DEF Spec

-----------------------------------------------------------------------------
(* What becomes of a pending byte. *)

\* Whatever leaves the document's edits and the stashes alone.
LEMMA SameKept ==
    ASSUME UNCHANGED <<stash, owner, repl, undo, redo>>, NEW r,
           NEW s \in DOMAIN EditsOf(r).spans
    PROVE  ByteKept(r, s)
<1>1. EditsOf(r)' = EditsOf(r)
  BY DEF EditsOf
<1> QED BY <1>1 DEF ByteKept

\* One slot of the document is touched.
LEMMA SlotTouched ==
    ASSUME UNCHANGED <<stash, owner>>, NEW x,
           \A s \in DOMAIN repl \ {x} : s \in DOMAIN repl' /\ repl'[s] = repl[s],
           NEW r, NEW s \in DOMAIN EditsOf(r).spans
    PROVE  ByteKept(r, s) \/ (owner = r /\ s = x)
<1>1. CASE owner = r
  <2>1. EditsOf(r).spans = repl /\ EditsOf(r)'.spans = repl'
    BY <1>1 DEF EditsOf
  <2> QED BY <1>1, <2>1 DEF ByteKept
<1>2. CASE owner # r
  <2>1. EditsOf(r)' = EditsOf(r)
    BY <1>2 DEF EditsOf
  <2> QED BY <2>1 DEF ByteKept
<1> QED BY <1>1, <1>2

\* Editing, and steps back and forth, touch the slot that the user means.
LEMMA RetypedKept ==
    ASSUME (\E x \in Slots, v \in Typed : Edit(x, v)) \/ Undo \/ Redo, NEW r,
           NEW s \in DOMAIN EditsOf(r).spans
    PROVE  ByteKept(r, s) \/ (owner = r /\ Retyped(s))
<1>1. ASSUME NEW x \in Slots, NEW v \in Typed, Edit(x, v)
      PROVE  ByteKept(r, s) \/ (owner = r /\ Retyped(s))
  <2>1. UNCHANGED <<stash, owner>> /\ repl' = Replaced(base, repl, x, v)
    BY <1>1 DEF Edit
  <2>2. \A y \in DOMAIN repl \ {x} : y \in DOMAIN repl' /\ repl'[y] = repl[y]
    BY <2>1 DEF Replaced, With, Without
  <2>3. ByteKept(r, s) \/ (owner = r /\ s = x)
    BY <2>1, <2>2, SlotTouched
  <2> QED BY <1>1, <2>3 DEF Retyped
<1>2. ASSUME NEW x, NEW v, repl' = Restored(repl, x, v), UNCHANGED <<stash, owner>>,
             s = x => Retyped(s)
      PROVE  ByteKept(r, s) \/ (owner = r /\ Retyped(s))
  <2>1. \A y \in DOMAIN repl \ {x} : y \in DOMAIN repl' /\ repl'[y] = repl[y]
    BY <1>2 DEF Restored, With, Without
  <2>2. ByteKept(r, s) \/ (owner = r /\ s = x)
    BY <1>2, <2>1, SlotTouched
  <2> QED BY <1>2, <2>2
<1>3. CASE Undo
  <2>1. /\ repl' = Restored(repl, Last(undo).slot, Last(undo).before)
        /\ UNCHANGED <<stash, owner>>
        /\ s = Last(undo).slot => Retyped(s)
    BY <1>3 DEF Undo, Retyped
  <2> QED BY <1>2, <2>1
<1>4. CASE Redo
  <2>1. /\ repl' = Restored(repl, Last(redo).slot, Last(redo).after)
        /\ UNCHANGED <<stash, owner>>
        /\ s = Last(redo).slot => Retyped(s)
    BY <1>4 DEF Redo, Retyped
  <2> QED BY <1>2, <2>1
<1> QED BY <1>1, <1>3, <1>4

\* A region with a pending byte is listed, and its edits are found there.
LEMMA PendingListed ==
    ASSUME RegionInv, Running, NEW r \in Regions, NEW s \in DOMAIN EditsOf(r).spans
    PROVE  \E j \in Places :
            /\ list[j].id = r
            /\ EditsOf(r) = IF j = opened THEN [of |-> r, spans |-> repl,
                                                undo |-> undo, redo |-> redo]
                            ELSE IF j \in DOMAIN stash THEN stash[j] ELSE NoEdits(r)
<1>1. WellListed(list) /\ EditsAtHome
  BY DEF RegionInv
<1>2. CASE \A j \in Places : list[j].id # r
  BY <1>1, <1>2, NothingFound DEF NoEdits, Empty
<1>3. CASE \E j \in Places : list[j].id = r
  BY <1>1, <1>3, EditsFound
<1> QED BY <1>2, <1>3

\* An attempt to enter a region, also one that fails.
LEMMA OpenKept ==
    ASSUME RegionInv, RegionInv', NEW i \in DOMAIN list, OpenRegion(i),
           NEW r \in Regions, NEW s \in DOMAIN EditsOf(r).spans
    PROVE  ByteKept(r, s) \/ FailedSwitch(r)
<1>1. CASE StayInRegion(i)
  BY <1>1, SameKept DEF StayInRegion, docVars
<1>2. CASE EnterRegion(i)
  <2>1. opened' = i /\ opened' # opened /\ OpenRegion(opened')
    BY <1>2 DEF EnterRegion
  <2> QED BY <2>1, SwitchStep DEF KeepsEdits
<1>3. CASE FailToEnter(i)
  <2>1. Running /\ Running'
    BY DEF OpenRegion, Running
  <2>2. /\ UNCHANGED <<list, opened, owner, repl>> /\ stash' = Without(Stashed, i)
        /\ i # opened
    BY <1>3 DEF FailToEnter
  <2>3. PICK j \in Places :
            /\ list[j].id = r
            /\ EditsOf(r) = IF j = opened THEN [of |-> r, spans |-> repl,
                                                undo |-> undo, redo |-> redo]
                            ELSE IF j \in DOMAIN stash THEN stash[j] ELSE NoEdits(r)
    BY <2>1, PendingListed
  <2>4. FoundByPlace'
    BY <2>1, EditsFoundNext DEF RegionInv, EditsListed
  <2>5. EditsOf(r)' = IF j = opened THEN [of |-> r, spans |-> repl',
                                          undo |-> undo', redo |-> redo']
                      ELSE IF j \in DOMAIN stash' THEN stash'[j] ELSE NoEdits(r)
    BY <2>2, <2>3, <2>4 DEF FoundByPlace, NoEdits
  <2>6. CASE j = i
    BY <1>3, <2>3, <2>6 DEF FailedSwitch
  <2>7. CASE j = opened
    BY <2>2, <2>3, <2>5, <2>7 DEF ByteKept
  <2>8. CASE j # i /\ j # opened
    <3>1. (j \in DOMAIN stash' <=> j \in DOMAIN stash)
            /\ (j \in DOMAIN stash => stash'[j] = stash[j])
      BY <2>2, <2>8 DEF Stashed, With, Without
    <3>2. EditsOf(r)' = EditsOf(r)
      BY <2>3, <2>5, <2>8, <3>1
    <3> QED BY <3>2 DEF ByteKept
  <2> QED BY <2>6, <2>7, <2>8
<1> QED BY <1>1, <1>2, <1>3 DEF OpenRegion

\* All the pending bytes of a place that is done are in its region.
LEMMA DoneWritten ==
    ASSUME RegionInv, Held, Running, NEW written, NEW done,
           DOMAIN written \subseteq DOMAIN Pending \cap Places,
           done \subseteq DOMAIN written, WriteSpans(written, done),
           NEW j \in done, written[j] = FirstSlots(j, Spans(j)),
           NEW s \in DOMAIN Pending[j]
    PROVE  mem'[list[j].id][s] = Pending[j][s]
<1> DEFINE r == list[j].id
           by == {i \in DOMAIN written : list[i].id = r /\ s \in written[i]}
<1>1. WellListed(list) /\ j \in Places /\ r \in Regions
  BY MappedFinite DEF RegionInv, WellListed, Entries
<1>2. Pending[j] = repl \/ (j \in DOMAIN stash /\ Pending[j] = stash[j].spans)
  BY DEF Pending
<1>3. DOMAIN Pending[j] \subseteq Slots
  BY <1>2 DEF Held, EditsOK, SpansOK
<1>4. DOMAIN Pending[j] \in SUBSET Nat /\ IsFiniteSet(DOMAIN Pending[j])
  BY <1>3, MemoryConstants, FS_Subset
<1>5. \E k \in 1..Spans(j) : ById(DOMAIN Pending[j])[k] = s
  BY <1>4, Listing DEF Spans
<1>6. s \in written[j]
  BY <1>5 DEF FirstSlots
<1>7. by = {j}
  BY <1>1, <1>6, ListedOnce
<1>8. mem'[r] = Overwritten(mem[r], r, written)
  BY <1>1 DEF WriteSpans, MemWith
<1>9. mem'[r][s] = Pending[CHOOSE i \in by : TRUE][s]
  BY <1>3, <1>7, <1>8 DEF Overwritten
<1> HIDE DEF by
<1>10. (CHOOSE i \in by : TRUE) = j
  BY <1>7
<1> QED BY <1>9, <1>10

\* A commit forgets what it wrote and nothing else, wherever it ends.
LEMMA CommitKept ==
    ASSUME RegionInv, RegionInv', Held, Running, NEW written, NEW done,
           DOMAIN written \subseteq DOMAIN Pending \cap Places,
           done \subseteq DOMAIN written, WriteSpans(written, done),
           \A j \in done : written[j] = FirstSlots(j, Spans(j)),
           opened \notin done => StopWriting(written),
           \A j \in DOMAIN stash \ (done \cup {opened}) :
                j \in DOMAIN stash' /\ stash'[j] = stash[j],
           UNCHANGED <<opened, quit>>,
           NEW r \in Regions, NEW s \in DOMAIN EditsOf(r).spans
    PROVE  ByteKept(r, s)
<1>1. Running' /\ \A i \in Places : list'[i].id = list[i].id
  BY Writes DEF Running
<1>2. PICK j \in Places :
        /\ list[j].id = r
        /\ EditsOf(r) = IF j = opened THEN [of |-> r, spans |-> repl,
                                            undo |-> undo, redo |-> redo]
                        ELSE IF j \in DOMAIN stash THEN stash[j] ELSE NoEdits(r)
  BY PendingListed
<1>3. FoundByPlace'
  BY <1>1, EditsFoundNext DEF RegionInv, EditsListed
<1>4. EditsOf(r)' = IF j = opened THEN [of |-> r, spans |-> repl',
                                        undo |-> undo', redo |-> redo']
                    ELSE IF j \in DOMAIN stash' THEN stash'[j] ELSE NoEdits(r)
  BY <1>1, <1>2, <1>3 DEF FoundByPlace, NoEdits
<1>5. CASE j \in done
  <2>1. Pending[j] = EditsOf(r).spans
    BY <1>2, <1>5 DEF Pending
  <2>2. mem'[r][s] = Pending[j][s]
    BY <1>2, <1>5, <2>1, DoneWritten
  <2> QED BY <2>1, <2>2 DEF ByteKept
<1>6. CASE j \notin done /\ j = opened
  <2>1. repl' = repl
    BY <1>6 DEF StopWriting, docVars
  <2> QED BY <1>2, <1>4, <1>6, <2>1 DEF ByteKept
<1>7. CASE j \notin done /\ j # opened
  <2>1. j \in DOMAIN stash
    BY <1>2, <1>7 DEF NoEdits, Empty
  <2>2. EditsOf(r)' = EditsOf(r)
    BY <1>2, <1>4, <1>7, <2>1
  <2> QED BY <2>2 DEF ByteKept
<1> QED BY <1>5, <1>6, <1>7

\* :mem commit and :mem commit-all.
LEMMA CommitStepKept ==
    ASSUME RegionInv, RegionInv', Held, Commit \/ CommitAll,
           NEW r \in Regions, NEW s \in DOMAIN EditsOf(r).spans
    PROVE  ByteKept(r, s)
<1>1. CASE Commit
  <2>1. /\ Running /\ opened \in DOMAIN Pending \cap Places
        /\ UNCHANGED <<opened, quit>>
    BY <1>1 DEF Commit, Pending, RegionInv, EditsAtHome
  <2>2. PICK n \in 0..Spans(opened) :
            LET written == [i \in {opened} |-> FirstSlots(opened, n)]
            IN  \/ /\ n < Spans(opened)
                   /\ WriteSpans(written, {}) /\ StopWriting(written)
                   /\ stash' = stash
                \/ /\ n = Spans(opened)
                   /\ WriteSpans(written, {opened}) /\ Reopen(PagesWith(written))
                   /\ stash' = Without(stash, opened)
    BY <1>1, Zenon DEF Commit
  <2> DEFINE written == [i \in {opened} |-> FirstSlots(opened, n)]
  <2>3. DOMAIN written = {opened} /\ written[opened] = FirstSlots(opened, n)
    OBVIOUS
  <2>4. CASE WriteSpans(written, {}) /\ StopWriting(written) /\ stash' = stash
    <3> HIDE DEF written
    <3> QED BY <2>1, <2>3, <2>4, CommitKept
  <2>5. CASE /\ n = Spans(opened)
             /\ WriteSpans(written, {opened}) /\ stash' = Without(stash, opened)
    <3>1. written[opened] = FirstSlots(opened, Spans(opened))
      BY <2>3, <2>5
    <3> HIDE DEF written
    <3>2. \A j \in DOMAIN stash \ {opened} : j \in DOMAIN stash' /\ stash'[j] = stash[j]
      BY <2>5 DEF Without
    <3> QED BY <2>1, <2>3, <2>5, <3>1, <3>2, CommitKept
  <2> QED BY <2>2, <2>4, <2>5, Zenon
<1>2. CASE CommitAll
  <2>1. Running /\ UNCHANGED <<opened, quit>>
    BY <1>2 DEF CommitAll
  <2>2. PICK written, done :
            /\ DOMAIN written \subseteq DOMAIN Pending \cap Places
            /\ done \subseteq DOMAIN written
            /\ \A i \in done : written[i] = FirstSlots(i, Spans(i))
            /\ WriteSpans(written, done)
            /\ stash' = [i \in DOMAIN stash \ (done \ {opened}) |-> stash[i]]
            /\ \/ opened \in done /\ Reopen(PagesWith(written))
               \/ opened \notin done /\ StopWriting(written)
    BY <1>2, CommitAllParts, Zenon
  <2>3. \A j \in DOMAIN stash \ (done \cup {opened}) :
            j \in DOMAIN stash' /\ stash'[j] = stash[j]
    BY <2>2
  <2> QED BY <2>1, <2>2, <2>3, CommitKept
<1> QED BY <1>1, <1>2

\* What :q and attaching ask for is that no region has a pending byte.
LEMMA NothingPending ==
    ASSUME RegionInv, Running, NothingDirty, NEW r \in Regions,
           NEW s \in DOMAIN EditsOf(r).spans
    PROVE  FALSE
<1>1. repl = Empty /\ \A j \in DOMAIN stash \ {opened} : stash[j].spans = Empty
  BY DEF NothingDirty, Pending
<1>2. EditsOf(r).spans = Empty
  BY <1>1, PendingListed DEF NoEdits
<1> QED BY <1>2 DEF Empty

\* Every step keeps every pending byte, but for the exceptions by name.
LEMMA ByteStep ==
    ASSUME RegionInv, RegionInv', Held, Next, NEW r \in Regions,
           NEW s \in DOMAIN EditsOf(r).spans
    PROVE  \/ ByteKept(r, s)
           \/ owner = r /\ Retyped(s)
           \/ quit' = "forced"
           \/ FailedSwitch(r)
<1>1. CASE (\E x \in Slots, v \in Typed : Edit(x, v)) \/ Undo \/ Redo
  BY <1>1, RetypedKept
<1>2. ASSUME NEW i \in DOMAIN list, Select(i)
      PROVE  ByteKept(r, s)
  BY <1>2, SameKept DEF Select, docVars
<1>3. ASSUME NEW i \in DOMAIN list, OpenRegion(i)
      PROVE  ByteKept(r, s) \/ FailedSwitch(r)
  BY <1>3, OpenKept
<1>4. CASE Commit \/ CommitAll
  BY <1>4, CommitStepKept
<1>5. CASE Refresh \/ Freeze \/ Thaw
  BY <1>5, SameKept DEF Refresh, Freeze, Thaw, docVars
<1>6. CASE Attach
  BY <1>6, NothingPending DEF Attach
<1>7. ASSUME NEW force \in BOOLEAN, Quit(force)
      PROVE  quit' = "forced"
  <2>1. force \/ NothingDirty
    BY <1>7 DEF Quit
  <2>2. ~ NothingDirty
    BY <1>7, NothingPending DEF Quit
  <2> QED BY <1>7, <2>1, <2>2 DEF Quit
<1>8. CASE Exit \/ \E x \in Regions : Remap(x)
  BY <1>8, SameKept DEF Exit, Remap, docVars
<1> QED BY <1>1, <1>2, <1>3, <1>4, <1>5, <1>6, <1>7, <1>8 DEF Next

\* A byte that the user has changed, in any region, stays pending until the target
\* has it, wherever commits stop and whatever is entered, refreshed or attached to,
\* unless the user takes it back or discards it, or its region cannot be entered.
THEOREM NothingLost == "map" \notin Remaps => (Spec => EditsAreKept)
<1> SUFFICES ASSUME "map" \notin Remaps
             PROVE  Spec => EditsAreKept
  OBVIOUS
<1>1. RegionInv /\ [Next]_vars => RegionInv'
  BY RegionStep
<1>2. RegionInv /\ RegionInv' /\ Held /\ Listed /\ [Next]_vars => Held' /\ Listed'
  BY HeldStep, ListedStep
<1>3. RegionInv /\ RegionInv' /\ Held /\ [Next]_vars =>
        [ \A r \in Regions : \A s \in DOMAIN EditsOf(r).spans :
            \/ ByteKept(r, s)
            \/ owner = r /\ Retyped(s)
            \/ quit' = "forced"
            \/ FailedSwitch(r) ]_vars
  BY ByteStep
<1> QED BY RegionStart, TypesStart, <1>1, <1>2, <1>3, PTL DEF Spec, EditsAreKept
===============================================================================
