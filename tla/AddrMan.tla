------------------------------ MODULE AddrMan -------------------------------
(***************************************************************************)
(* CAddrMan (addrman.cpp, addrman.h): the addresses of possible peers, in  *)
(* a table of new addresses, where one address may have several places,    *)
(* and a table of tried ones, where it has one; the addresses that wait to *)
(* replace a tried one until that one has been tested; peers.dat.          *)
(* Every operation holds cs, so it is one step.                            *)
(*                                                                         *)
(* The keyed hashes that choose buckets and positions are constants.  Of   *)
(* times (nLastSuccess, nLastTry) the model keeps what the collisions ask: *)
(* whether an entry has "never" answered, has "answered" in the last       *)
(* ADDRMAN_REPLACEMENT_HOURS, or else was tried in the last minute         *)
(* ("trying"), in those hours ("failed") or before ("stale").              *)
(***************************************************************************)
EXTENDS Integers, Sequences, FiniteSets, FiniteSetsExt, SequencesExt, Functions

CONSTANTS Addrs, Sources,
          NewBucket,       \* NewBucket[<<a, s>>]: GetNewBucket of the address a announced by s,
                           \* for every announcement
          NewPos,          \* NewPos[<<a, bucket>>]: GetBucketPosition in vvNew
          TriedSlot,       \* TriedSlot[a]: bucket and position in vvTried
          MaxRefs,         \* ADDRMAN_NEW_BUCKETS_PER_ADDRESS
          MaxCollisions,   \* ADDRMAN_SET_TRIED_COLLISION_SIZE
          MaxIds           \* bound: ids given out before a restart

Buckets == {NewBucket[x] : x \in DOMAIN NewBucket}
NewSlot(a, bucket) == <<bucket, NewPos[<<a, bucket>>]>>
NewSlots == {NewSlot(a, b) : a \in Addrs, b \in Buckets}
TriedSlots == {TriedSlot[a] : a \in Addrs}

ASSUME AddrManAssumption ==
  /\ DOMAIN NewBucket \subseteq Addrs \X Sources /\ Buckets \subseteq Nat
  /\ IsFiniteSet(Addrs) /\ IsFiniteSet(Buckets) /\ NewPos \in [Addrs \X Buckets -> Nat]
  /\ DOMAIN TriedSlot = Addrs /\ {MaxRefs, MaxCollisions, MaxIds} \subseteq Nat \ {0}

VARIABLE am   \* info, addr: mapInfo, mapAddr; random: vRandom; new, tried: vvNew,
              \* vvTried, by slot; nNew, nTried, nId: nIdCount; coll: m_tried_collisions

Empty == [info |-> <<>>, addr |-> <<>>, random |-> <<>>,
          new |-> [s \in NewSlots |-> -1], tried |-> [s \in TriedSlots |-> -1],
          nNew |-> 0, nTried |-> 0, nId |-> 0, coll |-> {}]

Init == am = Empty

-----------------------------------------------------------------------------
(* Helpers of the class.  They take and return its whole state.            *)

\* An operation is applied to the elements of a sequence in turn.
InTurn(Op(_, _), m, s) ==
  LET After[i \in 0..Len(s)] == IF i = 0 THEN m ELSE Op(After[i - 1], s[i])
  IN After[Len(s)]

\* The numbers of a set, the lowest first.
InOrder(S) == [i \in 1..Cardinality(S) |->
                 CHOOSE n \in S : Cardinality({x \in S : x < n}) = i - 1]

Put(f, k, v) == [x \in DOMAIN f \cup {k} |-> IF x = k THEN v ELSE f[x]]
Drop(f, k) == Restrict(f, DOMAIN f \ {k})

\* CAddrInfo; pos is nRandomPos, counted from 1.
Info(a, s, pos) == [addr |-> a, src |-> s, ref |-> 0, inTried |-> FALSE, pos |-> pos,
                    tested |-> "never"]

Create(m, a, s) ==
  [m EXCEPT !.info = Put(@, m.nId, Info(a, s, Len(m.random) + 1)),
            !.addr = Put(@, a, m.nId), !.random = Append(@, m.nId), !.nId = @ + 1]

SwapRandom(m, i, j) ==
  IF i = j THEN m
  ELSE [m EXCEPT !.info[m.random[i]].pos = j, !.info[m.random[j]].pos = i,
                 !.random[i] = m.random[j], !.random[j] = m.random[i]]

Delete(m, id) ==
  LET r == SwapRandom(m, m.info[id].pos, Len(m.random))
  IN [r EXCEPT !.random = Front(@), !.addr = Drop(@, m.info[id].addr),
               !.info = Drop(@, id), !.nNew = @ - 1]

\* Faulty variant: the last reference goes, the entry stays.
ClearNewKeeps(m, slot) ==
  IF m.new[slot] = -1 THEN m
  ELSE [m EXCEPT !.info[m.new[slot]].ref = @ - 1, !.new[slot] = -1]

ClearNew(m, slot) ==
  LET id == m.new[slot]
      r == [m EXCEPT !.info[id].ref = @ - 1, !.new[slot] = -1]
  IN IF id = -1 THEN m ELSE IF r.info[id].ref = 0 THEN Delete(r, id) ELSE r

\* The entry leaves its places in vvNew.
Unlisted(m, id) ==
  LET mine == {s \in {NewSlot(m.info[id].addr, b) : b \in Buckets} : m.new[s] = id}
  IN [m EXCEPT !.new = [s \in NewSlots |-> IF s \in mine THEN -1 ELSE @[s]],
               !.info[id].ref = @ - Cardinality(mine), !.nNew = @ - 1]

\* The tried entry in the slot goes back to vvNew, whatever was there is cleared.
Evicted(m, slot) ==
  LET old == m.tried[slot]
      to == NewSlot(m.info[old].addr, NewBucket[<<m.info[old].addr, m.info[old].src>>])
      c == ClearNew([m EXCEPT !.info[old].inTried = FALSE, !.tried[slot] = -1,
                              !.nTried = @ - 1], to)
  IN IF old = -1 THEN m
     ELSE [c EXCEPT !.info[old].ref = 1, !.new[to] = old, !.nNew = @ + 1]

MakeTried(m, id) ==
  LET slot == TriedSlot[m.info[id].addr]
      e == Evicted(Unlisted(m, id), slot)
  IN [e EXCEPT !.tried[slot] = id, !.nTried = @ + 1, !.info[id].inTried = TRUE]

-----------------------------------------------------------------------------
(* Operations.                                                             *)

Good_(m, a, testBeforeEvict) ==
  LET id == m.addr[a]
      g == [m EXCEPT !.info[id].tested = "answered"]
      listed == \E b \in Buckets : m.new[NewSlot(a, b)] = id
  IN IF a \notin DOMAIN m.addr THEN m
     ELSE IF m.info[id].inTried \/ ~listed THEN g
     ELSE IF ~testBeforeEvict \/ m.tried[TriedSlot[a]] = -1 THEN MakeTried(g, id)
     ELSE IF Cardinality(m.coll) < MaxCollisions THEN [g EXCEPT !.coll = @ \cup {id}]
     ELSE g

\* The address gets a place in the bucket of its source.  An entry in the way
\* yields when IsTerrible (of times and failures that the model does not keep),
\* or when it has other places and the address has none; an address without a
\* place is deleted again.
Placed(m, id, s, terrible) ==
  LET slot == NewSlot(m.info[id].addr, NewBucket[<<m.info[id].addr, s>>])
      old == m.new[slot]
      yields == \/ old = -1 \/ terrible
                \/ m.info[old].ref > 1 /\ m.info[id].ref = 0
      c == ClearNew(m, slot)
  IN IF old = id THEN m
     ELSE IF yields THEN [c EXCEPT !.info[id].ref = @ + 1, !.new[slot] = id]
     ELSE IF m.info[id].ref = 0 THEN Delete(m, id) ELSE m

\* An address that is known is placed again only with news, and by chance.
Add(a, s) ==
  \E terrible \in BOOLEAN :
    IF a \in DOMAIN am.addr
    THEN LET id == am.addr[a]
         IN /\ ~am.info[id].inTried /\ am.info[id].ref < MaxRefs
            /\ am' = Placed(am, id, s, terrible)
    ELSE /\ am.nId < MaxIds
         /\ LET c == Create(am, a, s)
            IN am' = Placed([c EXCEPT !.nNew = @ + 1], am.nId, s, terrible)

Good(a) == am' = Good_(am, a, TRUE)

\* A try in the hours after a success is forgotten: a later one has its effect.
Attempt(a) ==
  /\ a \in DOMAIN am.addr
  /\ am' = [am EXCEPT !.info[am.addr[a]].tested =
                          IF @ \in {"never", "answered"} THEN @ ELSE "trying"]

\* Faulty variant: an address that has replaced its rival goes on waiting.
ResolveKeeps(m, id) ==
  LET old == m.tried[TriedSlot[m.info[id].addr]]
  IN IF id \notin DOMAIN m.info THEN [m EXCEPT !.coll = @ \ {id}]
     ELSE IF m.info[old].tested = "answered" THEN [m EXCEPT !.coll = @ \ {id}]
     ELSE IF m.info[old].tested = "failed" THEN Good_(m, m.info[id].addr, FALSE)
     ELSE m

\* One pending address: its rival has answered since, has failed, or was not tested.
Resolve(m, id) ==
  LET a == m.info[id].addr
      old == m.tried[TriedSlot[a]]
      done == [m EXCEPT !.coll = @ \ {id}]
  IN IF id \notin DOMAIN m.info THEN done
     ELSE IF old = -1 THEN Good_(done, a, FALSE)
     ELSE IF m.info[old].tested = "answered" THEN done
     ELSE IF m.info[old].tested = "failed" THEN Good_(done, a, FALSE)
     ELSE m
ResolveCollisions == am.coll # {} /\ am' = InTurn(Resolve, am, InOrder(am.coll))

\* The rival of a random pending address, for a feeler connection; mapInfo[id]
\* creates an entry for an id it does not have.
SelectTriedCollision ==
  \E id \in am.coll :
    LET old == am.tried[TriedSlot[am.info[id].addr]]
    IN am' = IF id \notin DOMAIN am.info THEN [am EXCEPT !.coll = @ \ {id}]
             ELSE IF old = -1
             THEN [am EXCEPT !.info = Put(@, -1, Info(am.info[id].addr, am.info[id].src, 0))]
             ELSE am

\* A random part of the entries is moved to the front.
Shuffled(m, r, k) == InTurn(LAMBDA e, n : SwapRandom(e, n, r[n]), m, [n \in 1..k |-> n])
GetAddr ==
  \E k \in 1..Len(am.random) : \E r \in [1..k -> 1..Len(am.random)] :
    (\A n \in 1..k : r[n] >= n) /\ am' = Shuffled(am, r, k)

\* Time goes by: a minute, or ADDRMAN_REPLACEMENT_HOURS.
Aged(f) == am' = [am EXCEPT !.info = [id \in DOMAIN @ |-> [am.info[id] EXCEPT !.tested = f[@]]]]
Minute == Aged([never |-> "never", answered |-> "answered", trying |-> "failed",
                failed |-> "failed", stale |-> "stale"])
Hours == Aged([never |-> "never", answered |-> "stale", trying |-> "stale",
               failed |-> "stale", stale |-> "stale"])

-----------------------------------------------------------------------------
(* peers.dat: the entries of the new table, then those of the tried table,  *)
(* by id, and for each bucket of vvNew the numbers of its entries.  Places, *)
(* ids, counts of references and the last try are not written.             *)

Saved(m, ids) ==
  [n \in DOMAIN ids |->
     LET i == m.info[ids[n]]
     IN [addr |-> i.addr, src |-> i.src,
         tested |-> IF i.tested \in {"never", "answered"} THEN i.tested ELSE "stale"]]
NewIds(m) == {id \in DOMAIN m.info : m.info[id].ref # 0}
TriedIds(m) == {id \in DOMAIN m.info : m.info[id].inTried}

\* Faulty variant: numbers count the tried entries too.
UnkIdAll(m, id) == Cardinality({i \in DOMAIN m.info : i < id})

\* mapUnkIds: the number of an entry among those written.
UnkId(m, id) == Cardinality({i \in NewIds(m) : i < id})

Serialize(m) ==
  [nNew |-> m.nNew, nTried |-> m.nTried,
   new |-> Saved(m, InOrder(NewIds(m))), tried |-> Saved(m, InOrder(TriedIds(m))),
   bucket |-> [b \in Buckets |->
                 {UnkId(m, m.new[s]) : s \in {t \in NewSlots : t[1] = b /\ m.new[t] # -1}}]]

\* An entry read is created anew; its number is its id.
Read(m, e) == LET c == Create(m, e.addr, e.src)
              IN [c EXCEPT !.info[m.nId].tested = e.tested]
ReadTried(m, e) ==
  IF m.tried[TriedSlot[e.addr]] # -1 THEN [m EXCEPT !.nTried = @ - 1]
  ELSE [Read(m, e) EXCEPT !.info[m.nId].inTried = TRUE, !.tried[TriedSlot[e.addr]] = m.nId]
ReadPlace(m, place) ==
  LET n == place[2]
      slot == NewSlot(m.info[n].addr, place[1])
  IN IF n < m.nNew /\ m.new[slot] = -1 /\ m.info[n].ref < MaxRefs
     THEN [m EXCEPT !.info[n].ref = @ + 1, !.new[slot] = n] ELSE m

Unserialize(file) ==
  LET new == InTurn(Read, [Empty EXCEPT !.nNew = file.nNew, !.nTried = file.nTried], file.new)
      tried == InTurn(ReadTried, new, file.tried)
      places == UNION {{b} \X file.bucket[b] : b \in Buckets}
      placed == InTurn(ReadPlace, tried, SetToSeq(places))
      lost == {id \in DOMAIN placed.info : ~placed.info[id].inTried /\ placed.info[id].ref = 0}
  IN InTurn(Delete, placed, InOrder(lost))

\* The node is shut down and started again.
Restart == am' = Unserialize(Serialize(am))

Next == \/ \E x \in DOMAIN NewBucket : Add(x[1], x[2])
        \/ \E a \in Addrs : Good(a) \/ Attempt(a)
        \/ ResolveCollisions \/ SelectTriedCollision \/ GetAddr
        \/ Minute \/ Hours \/ Restart

Spec == Init /\ [][Next]_am

-----------------------------------------------------------------------------
(* Properties.                                                             *)

TypeOK ==
  /\ DOMAIN am.info \subseteq 0..(am.nId - 1)
  /\ \A id \in DOMAIN am.info :
       am.info[id] \in [addr : Addrs, src : Sources, ref : Nat, inTried : BOOLEAN, pos : Nat,
                        tested : {"never", "answered", "trying", "failed", "stale"}]
  /\ am.addr \in [DOMAIN am.addr -> Nat] /\ DOMAIN am.addr \subseteq Addrs
  /\ am.random \in Seq(Nat) /\ {am.nNew, am.nTried, am.nId} \subseteq Nat
  /\ am.new \in [NewSlots -> Nat \cup {-1}] /\ am.tried \in [TriedSlots -> Nat \cup {-1}]
  /\ am.coll \subseteq Nat

\* What CAddrMan::Check_ (compiled only with DEBUG_ADDRMAN) returns 0 for: the
\* counts, the random order, the map by address and the two tables agree, an entry
\* has as many places in the new table as references, at least one and at most
\* ADDRMAN_NEW_BUCKETS_PER_ADDRESS, or one place in the tried table and has
\* answered once.
CheckPasses ==
  /\ Len(am.random) = am.nNew + am.nTried
  /\ am.nTried = Cardinality(TriedIds(am))
  /\ am.nNew = Cardinality(DOMAIN am.info \ TriedIds(am))
  /\ \A id \in DOMAIN am.info :
       LET i == am.info[id]
       IN /\ i.inTried => i.tested # "never" /\ i.ref = 0 /\ am.tried[TriedSlot[i.addr]] = id
          /\ ~i.inTried => i.ref \in 1..MaxRefs
          /\ i.ref = Cardinality({s \in NewSlots : am.new[s] = id})
          /\ i.addr \in DOMAIN am.addr /\ am.addr[i.addr] = id
          /\ i.pos \in DOMAIN am.random /\ am.random[i.pos] = id
  /\ \A s \in TriedSlots : am.tried[s] # -1 =>
       am.tried[s] \in TriedIds(am) /\ TriedSlot[am.info[am.tried[s]].addr] = s
  /\ \A s \in NewSlots : am.new[s] # -1 =>
       am.new[s] \in DOMAIN am.info /\ NewSlot(am.info[am.new[s]].addr, s[1]) = s

\* An address that waits in m_tried_collisions and still exists is not in the tried
\* table, and the place it waits for is taken by another one: SelectTriedCollision_
\* reads mapInfo[id_old] without asking whether there is a rival, and a feeler
\* connection must test the rival and not the address itself.
CollisionsPending ==
  \A id \in am.coll \cap DOMAIN am.info :
    ~am.info[id].inTried /\ am.tried[TriedSlot[am.info[id].addr]] \notin {-1, id}

\* Which address each place of a table holds.
AddrsAt(m, table) == [s \in {t \in DOMAIN table : table[t] # -1} |-> m.info[table[s]].addr]

\* Writing peers.dat and reading it puts every address back into the places it had,
\* though the file names no position and every id changes.
ReloadKeepsTables ==
  [][Restart => /\ AddrsAt(am', am'.new) = AddrsAt(am, am.new)
                /\ AddrsAt(am', am'.tried) = AddrsAt(am, am.tried)]_am
=============================================================================
