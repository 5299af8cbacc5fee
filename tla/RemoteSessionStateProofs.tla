---------------------- MODULE RemoteSessionStateProofs ----------------------
(***************************************************************************)
(* Proofs about the reducer for every set of items, values and runs: the   *)
(* copy, kept as a map of items with an order beside it, describes the     *)
(* session that the baselines and events it took describe.                 *)
(***************************************************************************)
EXTENDS RemoteSessionState, SequenceLemmas

-----------------------------------------------------------------------------
(* The inductive invariant *)

Fields == {"scope", "installed", "cursor", "sequence", "seen", "items", "order", "todos", "run"}

\* The order lists the keys of the map, each once.
Listing(s) ==
    /\ DOMAIN s = Fields
    /\ IsSequence(s.order) /\ IsInjective(s.order)
    /\ {s.order[i] : i \in DOMAIN s.order} = DOMAIN s.items

Typed(s) ==
    /\ DOMAIN s.items \subseteq Item /\ \A m \in DOMAIN s.items : s.items[m] \in Value
    /\ s.todos \in Value \cup {NONE} /\ s.run \in Run \cup {NONE}

Good(s) == Listing(s) /\ Typed(s)

Remembers(s) == IsSequence(s.seen) /\ Len(s.seen) <= SeenLimit

Counts(s) == s.cursor \in 0 .. MaxSequence /\ s.sequence \in 0 .. MaxSequence

IInv ==
    /\ Good(state) /\ Counts(state) /\ Remembers(state)
    /\ session = View(state)

-----------------------------------------------------------------------------
(* The copy and what it describes *)

Rows(s) == [i \in DOMAIN s.order |-> [id |-> s.order[i], value |-> s.items[s.order[i]]]]

LEMMA ViewFields ==
    ASSUME NEW s
    PROVE  /\ View(s) = [items |-> Rows(s), todos |-> s.todos, run |-> s.run]
           /\ View(s).items = Rows(s) /\ View(s).todos = s.todos /\ View(s).run = s.run
           /\ DOMAIN Rows(s) = DOMAIN s.order
           /\ \A i \in DOMAIN s.order :
                 /\ Rows(s)[i] = [id |-> s.order[i], value |-> s.items[s.order[i]]]
                 /\ Rows(s)[i].id = s.order[i]
<1>1. View(s) = [items |-> Rows(s), todos |-> s.todos, run |-> s.run]
  BY DEF View, Rows
<1> QED BY <1>1 DEF Rows

\* An item is listed by what the copy describes when the map has it.
LEMMA ListsTheMap ==
    ASSUME NEW s, Good(s), NEW m
    PROVE  Lists(View(s).items, m) <=> m \in DOMAIN s.items
<1>1. m \in DOMAIN s.items <=> \E i \in DOMAIN s.order : s.order[i] = m
  BY DEF Good, Listing
<1>2. Lists(Rows(s), m) <=> \E i \in DOMAIN s.order : s.order[i] = m
  BY DEF Lists, Rows
<1>3. View(s).items = Rows(s)
  BY ViewFields
<1> QED BY <1>1, <1>2, <1>3

LEMMA ViewIsContent ==
    ASSUME NEW s, Good(s)
    PROVE  View(s) \in Content
<1>1. Len(s.order) \in Nat /\ DOMAIN s.order = 1 .. Len(s.order)
  BY SequenceBasics DEF Good, Listing
<1>2. \A i \in DOMAIN s.order : s.order[i] \in Item /\ s.items[s.order[i]] \in Value
  BY DEF Good, Listing, Typed
<1>3. Rows(s) \in [1 .. Len(s.order) -> ListItem]
  BY <1>1, <1>2 DEF Rows, ListItem
<1>4. Rows(s) \in Seq(ListItem)
  BY <1>1, <1>3
<1>5. s.todos \in Value \cup {NONE} /\ s.run \in Run \cup {NONE}
  BY DEF Good, Typed
<1>6. [items |-> Rows(s), todos |-> s.todos, run |-> s.run] \in Content
  BY <1>4, <1>5 DEF Content
<1> QED BY <1>6, ViewFields

LEMMA RowsAreSequence ==
    ASSUME NEW s, Good(s)
    PROVE  IsSequence(Rows(s))
<1>1. DOMAIN Rows(s) = DOMAIN s.order /\ Rows(s) = [i \in DOMAIN Rows(s) |-> Rows(s)[i]]
  BY DEF Rows
<1> QED BY <1>1, ReplacedInSequence DEF Good, Listing

-----------------------------------------------------------------------------
(* What each case of the reducer does to the copy and to what it describes.    *)

LEMMA UpsertFollows ==
    ASSUME NEW s, Good(s), NEW m \in Item, NEW v \in Value
    PROVE  LET r == Upsert(s, m, v) IN
           /\ Good(r)
           /\ View(r) = [items |-> Put(Rows(s), m, v), todos |-> s.todos, run |-> s.run]
<1> DEFINE r == Upsert(s, m, v)
<1>1. /\ DOMAIN s = Fields /\ IsSequence(s.order) /\ IsInjective(s.order)
      /\ {s.order[i] : i \in DOMAIN s.order} = DOMAIN s.items
      /\ Len(s.order) \in Nat /\ DOMAIN s.order = 1 .. Len(s.order)
  BY SequenceBasics DEF Good, Listing
<1>2. /\ DOMAIN r = Fields
      /\ r.items = [x \in DOMAIN s.items \cup {m} |-> IF x = m THEN v ELSE s.items[x]]
      /\ r.order = IF m \in DOMAIN s.items THEN s.order ELSE Append(s.order, m)
      /\ r.todos = s.todos /\ r.run = s.run
  BY <1>1 DEF Upsert, Fields
<1> HIDE DEF r
<1>3. Typed(r)
  BY <1>2 DEF Good, Typed
<1>4. Lists(Rows(s), m) <=> m \in DOMAIN s.items
  <2>1. View(s).items = Rows(s)
    BY ViewFields
  <2> QED BY <2>1, ListsTheMap
<1>5. CASE m \in DOMAIN s.items
  <2>1. Listing(r)
    BY <1>1, <1>2, <1>5 DEF Listing
  <2>2. Rows(r) = Put(Rows(s), m, v)
    <3>1. \A i \in DOMAIN s.order : s.order[i] \in DOMAIN s.items
      BY <1>1
    <3>2. Put(Rows(s), m, v)
          = [i \in DOMAIN s.order |-> IF Rows(s)[i].id = m THEN [id |-> m, value |-> v] ELSE Rows(s)[i]]
      BY <1>4, <1>5, ViewFields DEF Put
    <3>3. Rows(r) = [i \in DOMAIN s.order |-> [id |-> s.order[i], value |-> r.items[s.order[i]]]]
      BY <1>2, <1>5 DEF Rows
    <3>4. ASSUME NEW i \in DOMAIN s.order
          PROVE  [id |-> s.order[i], value |-> r.items[s.order[i]]]
                 = IF Rows(s)[i].id = m THEN [id |-> m, value |-> v] ELSE Rows(s)[i]
      <4>1. Rows(s)[i] = [id |-> s.order[i], value |-> s.items[s.order[i]]]
        BY DEF Rows
      <4>2. r.items[s.order[i]] = IF s.order[i] = m THEN v ELSE s.items[s.order[i]]
        BY <1>2, <3>1
      <4> QED BY <4>1, <4>2
    <3> QED BY <3>2, <3>3, <3>4
  <2>3. Good(r) /\ View(r) = [items |-> Put(Rows(s), m, v), todos |-> s.todos, run |-> s.run]
    BY <1>2, <1>3, <2>1, <2>2, ViewFields DEF Good
  <2> QED BY <2>3 DEF r
<1>6. CASE m \notin DOMAIN s.items
  <2>1. /\ r.order = Append(s.order, m) /\ IsSequence(r.order)
        /\ DOMAIN r.order = 1 .. Len(s.order) + 1
        /\ \A i \in DOMAIN s.order : r.order[i] = s.order[i] /\ s.order[i] \in DOMAIN s.items
        /\ r.order[Len(s.order) + 1] = m
    BY <1>1, <1>2, <1>6, AppendToSequence
  <2>2. \A i \in DOMAIN r.order : i \in DOMAIN s.order \/ i = Len(s.order) + 1
    BY <1>1, <2>1
  <2>3. IsInjective(r.order)
    <3>1. \A a, b \in DOMAIN s.order : s.order[a] = s.order[b] => a = b
      BY <1>1 DEF IsInjective
    <3>2. \A i \in DOMAIN s.order : r.order[i] # m
      BY <1>6, <2>1
    <3>3. \A a, b \in DOMAIN r.order : r.order[a] = r.order[b] => a = b
      BY <2>1, <2>2, <3>1, <3>2
    <3> QED BY <3>3 DEF IsInjective
  <2>4. {r.order[i] : i \in DOMAIN r.order} = DOMAIN r.items
    <3>1. \A i \in DOMAIN r.order : r.order[i] \in DOMAIN r.items
      BY <1>2, <2>1, <2>2
    <3>2. ASSUME NEW x \in DOMAIN r.items PROVE \E i \in DOMAIN r.order : r.order[i] = x
      <4>1. CASE x = m
        BY <1>1, <2>1, <4>1
      <4>2. CASE x # m
        <5>1. PICK i \in DOMAIN s.order : s.order[i] = x
          BY <1>1, <1>2, <4>2
        <5> QED BY <1>1, <2>1, <5>1
      <4> QED BY <4>1, <4>2
    <3> QED BY <3>1, <3>2
  <2>5. Listing(r)
    BY <1>2, <2>1, <2>3, <2>4 DEF Listing
  <2>6. Rows(r) = Append(Rows(s), [id |-> m, value |-> v])
    <3> DEFINE q == Append(Rows(s), [id |-> m, value |-> v])
    <3>1. IsSequence(Rows(s)) /\ DOMAIN Rows(s) = 1 .. Len(s.order) /\ Len(Rows(s)) = Len(s.order)
      <4>1. IsSequence(Rows(s)) /\ DOMAIN Rows(s) = DOMAIN s.order
        BY RowsAreSequence, ViewFields
      <4>2. Len(Rows(s)) \in Nat /\ 1 .. Len(Rows(s)) = 1 .. Len(s.order)
        BY <1>1, <4>1, SequenceBasics
      <4> QED BY <1>1, <4>1, <4>2
    <3>2. /\ IsSequence(q) /\ DOMAIN q = 1 .. Len(s.order) + 1
          /\ \A i \in 1 .. Len(s.order) : q[i] = Rows(s)[i]
          /\ q[Len(s.order) + 1] = [id |-> m, value |-> v]
      BY <3>1, AppendToSequence
    <3> HIDE DEF q
    <3>3. IsSequence(Rows(r)) /\ DOMAIN Rows(r) = DOMAIN q
      BY <1>3, <2>1, <2>5, <3>2, RowsAreSequence, ViewFields DEF Good
    <3>4. ASSUME NEW i \in DOMAIN r.order PROVE Rows(r)[i] = q[i]
      <4>1. CASE i \in DOMAIN s.order
        <5>1. r.order[i] = s.order[i] /\ r.items[s.order[i]] = s.items[s.order[i]]
          BY <1>2, <1>6, <2>1, <4>1
        <5>2. q[i] = Rows(s)[i]
          BY <1>1, <3>2, <4>1
        <5> QED BY <4>1, <5>1, <5>2 DEF Rows
      <4>2. CASE i = Len(s.order) + 1
        <5>1. r.order[i] = m /\ r.items[m] = v /\ q[i] = [id |-> m, value |-> v]
          BY <1>2, <2>1, <3>2, <4>2
        <5> QED BY <5>1, ViewFields
      <4> QED BY <2>2, <4>1, <4>2
    <3>5. Rows(r) = q
      BY <2>1, <3>2, <3>3, <3>4, SameSequence
    <3> QED BY <3>5 DEF q
  <2>7. Put(Rows(s), m, v) = Rows(r)
    BY <1>4, <1>6, <2>6 DEF Put
  <2>8. Good(r) /\ View(r) = [items |-> Put(Rows(s), m, v), todos |-> s.todos, run |-> s.run]
    BY <1>2, <1>3, <2>5, <2>7, ViewFields DEF Good
  <2> QED BY <2>8 DEF r
<1> QED BY <1>5, <1>6

LEMMA PartFollows ==
    ASSUME NEW s, Good(s), NEW m \in DOMAIN s.items, NEW v \in Value
    PROVE  UpsertPart(s, m, v).items = Upsert(s, m, v).items
           /\ UpsertPart(s, m, v) = Upsert(s, m, v)
<1>1. [s.items EXCEPT ![m] = v]
      = [x \in DOMAIN s.items \cup {m} |-> IF x = m THEN v ELSE s.items[x]]
  OBVIOUS
<1> QED BY <1>1 DEF UpsertPart, Upsert

LEMMA RemoveFollows ==
    ASSUME NEW s, Good(s), NEW m
    PROVE  LET r == RemoveItem(s, m) IN
           /\ Good(r)
           /\ View(r) = [items |-> Removed(Rows(s), m), todos |-> s.todos, run |-> s.run]
<1> DEFINE r == RemoveItem(s, m)
           P == {i \in DOMAIN s.order : s.order[i] # m}
<1>1. /\ DOMAIN s = Fields /\ IsSequence(s.order) /\ IsInjective(s.order)
      /\ {s.order[i] : i \in DOMAIN s.order} = DOMAIN s.items
  BY DEF Good, Listing
<1>2. /\ DOMAIN r = Fields
      /\ r.items = [x \in DOMAIN s.items \ {m} |-> s.items[x]]
      /\ r.order = Without(s.order, m)
      /\ r.todos = s.todos /\ r.run = s.run
  BY <1>1 DEF RemoveItem, Fields
<1> HIDE DEF r
<1>3. Typed(r)
  BY <1>2 DEF Good, Typed
<1>4. Listing(r)
  <2>1. /\ IsSequence(r.order) /\ IsInjective(r.order)
        /\ ToSet(r.order) = ToSet(s.order) \ {m}
    BY <1>1, <1>2, WithoutElement
  <2> QED BY <1>1, <1>2, <2>1 DEF Listing, ToSet
<1>5. Rows(r) = Removed(Rows(s), m)
  <2>1. Removed(Rows(s), m) = Pick(Rows(s), P)
    <3>1. {i \in DOMAIN Rows(s) : Rows(s)[i].id # m} = P
      BY DEF Rows
    <3> QED BY <3>1 DEF Removed
  <2>2. r.order = Pick(s.order, P)
    BY <1>2 DEF Without
  <2>3. /\ IsSequence(Pick(s.order, P)) /\ DOMAIN Pick(s.order, P) = 1 .. Cardinality(P)
        /\ \A n \in 1 .. Cardinality(P) :
              Nth(P, n) \in DOMAIN s.order /\ s.order[Nth(P, n)] # m
    <3> P \in SUBSET DOMAIN s.order
      OBVIOUS
    <3>1. /\ IsSequence(Pick(s.order, P)) /\ Len(Pick(s.order, P)) = Cardinality(P)
          /\ \A n \in DOMAIN Pick(s.order, P) : Nth(P, n) \in P
      <4> HIDE DEF P
      <4> QED BY <1>1, Picked
    <3>2. DOMAIN Pick(s.order, P) = 1 .. Cardinality(P)
      BY DEF Pick
    <3> QED BY <3>1, <3>2
  <2> HIDE DEF P
  <2>4. ASSUME NEW n \in 1 .. Cardinality(P)
        PROVE  [id |-> r.order[n], value |-> r.items[r.order[n]]] = Rows(s)[Nth(P, n)]
    <3>1. r.order[n] = s.order[Nth(P, n)]
      BY <2>2 DEF Pick
    <3>2. s.order[Nth(P, n)] \in DOMAIN s.items \ {m}
      BY <1>1, <2>3
    <3>3. r.items[r.order[n]] = s.items[s.order[Nth(P, n)]]
      BY <1>2, <3>1, <3>2
    <3> QED BY <2>3, <3>1, <3>3 DEF Rows
  <2>5. Rows(r) = [n \in 1 .. Cardinality(P) |-> [id |-> r.order[n], value |-> r.items[r.order[n]]]]
    BY <2>2, <2>3 DEF Rows
  <2> QED BY <2>1, <2>4, <2>5 DEF Pick
<1>6. Good(r) /\ View(r) = [items |-> Removed(Rows(s), m), todos |-> s.todos, run |-> s.run]
  BY <1>2, <1>3, <1>4, <1>5, ViewFields DEF Good
<1> QED BY <1>6 DEF r

\* A snapshot lists each item once; the copy it leaves is the snapshot.
LEMMA InstallFollows ==
    ASSUME NEW s, DOMAIN s = Fields, NEW c \in SnapshotContent
    PROVE  Good(Install(s, c)) /\ View(Install(s, c)) = c
<1> DEFINE r == Install(s, c)
           ids == [i \in DOMAIN c.items |-> c.items[i].id]
<1>1. /\ c = [items |-> c.items, todos |-> c.todos, run |-> c.run]
      /\ c.todos = NONE /\ c.run \in Run \cup {NONE}
      /\ IsInjective(ids)
      /\ \E k \in Nat : c.items \in [1 .. k -> ListItem]
  BY DEF SnapshotContent, BoundedSeq, SeqOf
<1>2. IsSequence(c.items)
  <2>1. c.items \in Seq(ListItem)
    BY <1>1
  <2> QED BY <2>1, MembersMakeSequence
<1>3. \A i \in DOMAIN c.items : c.items[i] = [id |-> c.items[i].id, value |-> c.items[i].value]
                                /\ c.items[i].id \in Item /\ c.items[i].value \in Value
  BY <1>1 DEF ListItem
<1>4. /\ DOMAIN r = Fields
      /\ r.items = [m \in {i.id : i \in ToSet(c.items)} |->
                       (CHOOSE i \in ToSet(c.items) : i.id = m).value]
      /\ r.order = ids /\ r.todos = c.todos /\ r.run = c.run
  BY DEF Install, Fields
<1>5. ToSet(c.items) = {c.items[i] : i \in DOMAIN c.items}
  BY DEF ToSet
<1> HIDE DEF r
<1>6. DOMAIN r.items = {c.items[i].id : i \in DOMAIN c.items}
  BY <1>4, <1>5
<1>7. ASSUME NEW i \in DOMAIN c.items PROVE r.items[c.items[i].id] = c.items[i].value
  <2> DEFINE Of(m) == CHOOSE x \in ToSet(c.items) : x.id = m
             x == Of(c.items[i].id)
  <2>1. x \in ToSet(c.items) /\ x.id = c.items[i].id
    BY <1>5
  <2>2. PICK j \in DOMAIN c.items : x = c.items[j]
    BY <1>5, <2>1
  <2>3. ids[i] = ids[j]
    BY <2>1, <2>2
  <2>4. i = j
    BY <1>1, <2>3 DEF IsInjective
  <2>5. r.items[c.items[i].id] = x.value
    <3>1. r.items = [m \in {k.id : k \in ToSet(c.items)} |-> Of(m).value]
      BY <1>4
    <3>2. c.items[i].id \in {k.id : k \in ToSet(c.items)}
      BY <1>5
    <3> HIDE DEF Of
    <3> QED BY <3>1, <3>2
  <2> QED BY <2>2, <2>4, <2>5
<1>8. Typed(r)
  <2>1. DOMAIN r.items \subseteq Item
    BY <1>3, <1>6
  <2>2. \A m \in DOMAIN r.items : r.items[m] \in Value
    BY <1>3, <1>6, <1>7
  <2> QED BY <1>1, <1>4, <2>1, <2>2 DEF Typed
<1>9. Listing(r)
  <2>1. IsSequence(ids)
    BY <1>2, ReplacedInSequence
  <2>2. {ids[i] : i \in DOMAIN ids} = DOMAIN r.items
    BY <1>6
  <2>3. IsInjective(ids) /\ DOMAIN r = Fields /\ r.order = ids
    BY <1>1, <1>4
  <2> HIDE DEF ids
  <2> QED BY <2>1, <2>2, <2>3 DEF Listing
<1>10. Rows(r) = c.items
  <2>1. Rows(r) = [i \in DOMAIN c.items |-> [id |-> c.items[i].id, value |-> r.items[c.items[i].id]]]
    BY <1>4 DEF Rows
  <2>2. \A i \in DOMAIN c.items :
            [id |-> c.items[i].id, value |-> r.items[c.items[i].id]] = c.items[i]
    BY <1>3, <1>7
  <2>3. c.items = [i \in DOMAIN c.items |-> c.items[i]]
    BY <1>1
  <2> QED BY <2>1, <2>2, <2>3
<1>11. Good(r) /\ View(r) = c
  BY <1>1, <1>4, <1>8, <1>9, <1>10, ViewFields DEF Good
<1> QED BY <1>11 DEF r

\* Cursor, sequence and what is remembered are not part of what is described.
LEMMA SameView ==
    ASSUME NEW s, NEW r, DOMAIN r = DOMAIN s, r.items = s.items, r.order = s.order,
           r.todos = s.todos, r.run = s.run
    PROVE  View(r) = View(s) /\ (Good(s) => Good(r))
BY DEF View, Good, Listing, Typed

LEMMA AdvanceKeeps ==
    ASSUME NEW s, Good(s), Remembers(s), NEW e \in Envelope
    PROVE  LET r == Advance(s, e) IN Good(r) /\ View(r) = View(s) /\ Counts(r) /\ Remembers(r)
<1> DEFINE r == Advance(s, e)
           longer == Append(s.seen, e)
<1>1. DOMAIN s = Fields
  BY DEF Good, Listing
<1>2. /\ DOMAIN r = DOMAIN s /\ r.items = s.items /\ r.order = s.order
      /\ r.todos = s.todos /\ r.run = s.run
      /\ r.cursor = e.cursor /\ r.sequence = e.sequence /\ r.seen = Remember(s.seen, e)
  BY <1>1 DEF Advance, Fields
<1>3. e.cursor \in 1 .. MaxSequence /\ e.sequence \in 1 .. MaxSequence
  BY DEF Envelope
<1> HIDE DEF r
<1>4. Good(r) /\ View(r) = View(s)
  BY <1>2, SameView
<1>5. Counts(r)
  BY <1>2, <1>3, SequenceAssumption DEF Counts
<1>6. /\ IsSequence(s.seen) /\ Len(s.seen) \in Nat /\ Len(s.seen) <= SeenLimit
      /\ IsSequence(longer) /\ Len(longer) = Len(s.seen) + 1
      /\ SeenLimit \in Nat
  BY AppendToSequence, SequenceBasics, SeenLimitAssumption DEF Remembers
<1>7. Remember(s.seen, e) = IF Len(longer) > SeenLimit THEN Tail(longer) ELSE longer
  BY DEF Remember
<1> HIDE DEF longer
<1>8. longer # << >> /\ IsSequence(Tail(longer)) /\ Len(Tail(longer)) = Len(longer) - 1
  <2>1. longer # << >>
    BY <1>6, EmptySeq
  <2> QED BY <1>6, <2>1, TailOfSequence
<1>9. Remembers(r)
  BY <1>2, <1>6, <1>7, <1>8 DEF Remembers
<1> QED BY <1>4, <1>5, <1>9 DEF r

-----------------------------------------------------------------------------
(* Every case of applyRemoteSessionEvent *)

LEMMA ApplyFollows ==
    ASSUME NEW s, Good(s), NEW data \in SessionData(SnapshotContent) \cup {Lifecycle},
           Applicable(s, data)
    PROVE  /\ Good(Apply(s, data)) /\ Apply(s, data).seen = s.seen
           /\ View(Apply(s, data)) = Effect(View(s), data)
<1> DEFINE c == View(s)
<1>1. /\ DOMAIN s = Fields
      /\ \A x : [c EXCEPT !.items = x] = [items |-> x, todos |-> s.todos, run |-> s.run]
      /\ \A x : [c EXCEPT !.todos = x] = [items |-> Rows(s), todos |-> x, run |-> s.run]
      /\ \A x : [c EXCEPT !.run = x] = [items |-> Rows(s), todos |-> s.todos, run |-> x]
      /\ c.items = Rows(s) /\ c.run = s.run
  <2>1. c = [items |-> Rows(s), todos |-> s.todos, run |-> s.run]
    BY ViewFields
  <2> HIDE DEF c
  <2>2. /\ \A x : [c EXCEPT !.items = x] = [items |-> x, todos |-> s.todos, run |-> s.run]
        /\ \A x : [c EXCEPT !.todos = x] = [items |-> Rows(s), todos |-> x, run |-> s.run]
        /\ \A x : [c EXCEPT !.run = x] = [items |-> Rows(s), todos |-> s.todos, run |-> x]
    BY <2>1
  <2> QED BY <2>1, <2>2 DEF Good, Listing
<1> HIDE DEF c
<1>2. CASE data.type \in {"message.upsert", "message.part.upsert"}
  <2>1. data.id \in Item /\ data.value \in Value
    BY <1>2 DEF SessionData, Lifecycle
  <2>2. Effect(c, data) = [items |-> Put(Rows(s), data.id, data.value), todos |-> s.todos, run |-> s.run]
    BY <1>1, <1>2 DEF Effect
  <2>3. Apply(s, data) = Upsert(s, data.id, data.value)
    <3>1. CASE data.type = "message.upsert"
      BY <3>1 DEF Apply
    <3>2. CASE data.type = "message.part.upsert"
      <4>1. Apply(s, data) = UpsertPart(s, data.id, data.value)
        BY <3>2 DEF Apply
      <4> QED BY <2>1, <3>2, <4>1, PartFollows DEF Applicable
    <3> QED BY <1>2, <3>1, <3>2
  <2>4. Upsert(s, data.id, data.value).seen = s.seen
    BY <1>1 DEF Upsert, Fields
  <2> QED BY <2>1, <2>2, <2>3, <2>4, UpsertFollows DEF c
<1>3. CASE data.type = "message.remove"
  <2>1. Effect(c, data) = [items |-> Removed(Rows(s), data.id), todos |-> s.todos, run |-> s.run]
    BY <1>1, <1>3 DEF Effect
  <2>2. Apply(s, data) = RemoveItem(s, data.id)
    BY <1>3 DEF Apply
  <2>3. RemoveItem(s, data.id).seen = s.seen
    BY <1>1 DEF RemoveItem, Fields
  <2> QED BY <2>1, <2>2, <2>3, RemoveFollows DEF c
<1>4. CASE data.type = "todos.replace"
  <2> DEFINE r == [s EXCEPT !.todos = data.value]
  <2>1. data.value \in Value
    BY <1>4 DEF SessionData, Lifecycle
  <2>2. Effect(c, data) = [items |-> Rows(s), todos |-> data.value, run |-> s.run]
    BY <1>1, <1>4 DEF Effect
  <2>3. Apply(s, data) = r
    BY <1>4 DEF Apply
  <2>4. /\ DOMAIN r = Fields /\ r.items = s.items /\ r.order = s.order
        /\ r.todos = data.value /\ r.run = s.run /\ r.seen = s.seen
    BY <1>1 DEF Fields
  <2> HIDE DEF r
  <2>5. Good(r) /\ Rows(r) = Rows(s)
    BY <2>1, <2>4 DEF Good, Listing, Typed, Rows
  <2> QED BY <2>2, <2>3, <2>4, <2>5, ViewFields DEF c
<1>5. CASE data.type \in {"session.status", "run.status"}
  <2>1. CASE data.type = "run.status" /\ ~(data.terminal /\ s.run = data.run)
    BY <1>1, <2>1 DEF Effect, Apply, RunStatus, c
  <2>2. CASE ~(data.type = "run.status" /\ ~(data.terminal /\ s.run = data.run))
    <3> DEFINE n == IF data.type = "session.status" THEN data.run ELSE NONE
               r == [s EXCEPT !.run = n]
    <3>1. n \in Run \cup {NONE}
      BY <1>5, <2>2 DEF SessionData, Lifecycle
    <3>2. Effect(c, data) = [items |-> Rows(s), todos |-> s.todos, run |-> n]
      BY <1>1, <1>5, <2>2 DEF Effect
    <3>3. Apply(s, data) = r
      BY <1>5, <2>2 DEF Apply, RunStatus
    <3> HIDE DEF n
    <3>4. /\ DOMAIN r = Fields /\ r.items = s.items /\ r.order = s.order
          /\ r.todos = s.todos /\ r.run = n /\ r.seen = s.seen
      BY <1>1 DEF Fields
    <3> HIDE DEF r
    <3>5. Good(r) /\ Rows(r) = Rows(s)
      BY <3>1, <3>4 DEF Good, Listing, Typed, Rows
    <3> QED BY <3>2, <3>3, <3>4, <3>5, ViewFields DEF c
  <2> QED BY <2>1, <2>2
<1>6. CASE data.type = "snapshot"
  <2>1. data.content \in SnapshotContent
    BY <1>6 DEF SessionData, Lifecycle
  <2>2. Effect(c, data) = data.content /\ Apply(s, data) = Install(s, data.content)
    BY <1>6 DEF Effect, Apply
  <2>3. Install(s, data.content).seen = s.seen
    BY <1>1 DEF Install, Fields
  <2> QED BY <1>1, <2>1, <2>2, <2>3, InstallFollows DEF c
<1>7. CASE data.type \in {"snapshot_required", "command.lifecycle"}
  BY <1>7 DEF Effect, Apply, c
<1> QED BY <1>2, <1>3, <1>4, <1>5, <1>6, <1>7 DEF SessionData, Lifecycle

-----------------------------------------------------------------------------
(* The theorems *)

LEMMA InitIInv == Init => IInv
<1> SUFFICES ASSUME Init PROVE IInv
  OBVIOUS
<1>1. /\ DOMAIN state = Fields /\ state.order = << >> /\ state.items = << >>
      /\ state.seen = << >> /\ state.todos = NONE /\ state.run = NONE
      /\ state.cursor = 0 /\ state.sequence = 0
      /\ IsSequence(<< >>) /\ Len(<< >>) = 0 /\ DOMAIN << >> = {}
  BY EmptyIsSequence, EmptySeq DEF Init, Fields
<1>2. Good(state)
  BY <1>1 DEF Good, Listing, Typed, IsInjective
<1>3. Counts(state) /\ Remembers(state)
  BY <1>1, SequenceAssumption, SeenLimitAssumption DEF Counts, Remembers
<1>4. View(state) = Blank
  <2>1. Rows(state) = << >>
    <3>1. IsSequence(Rows(state)) /\ DOMAIN Rows(state) = {}
      BY <1>1, <1>2, RowsAreSequence, ViewFields
    <3> QED BY <1>1, <3>1, SameSequence
  <2> QED BY <1>1, <2>1, ViewFields DEF Blank
<1> QED BY <1>2, <1>3, <1>4 DEF Init, IInv

LEMMA StepIInv == IInv /\ [Next]_vars => IInv'
<1> SUFFICES ASSUME IInv, [Next]_vars PROVE IInv'
  OBVIOUS
<1>1. Good(state) /\ Counts(state) /\ Remembers(state) /\ session = View(state)
      /\ DOMAIN state = Fields
  BY DEF IInv, Good, Listing
<1>2. CASE Uninstall
  <2>1. /\ DOMAIN state' = DOMAIN state /\ state'.items = state.items /\ state'.order = state.order
        /\ state'.todos = state.todos /\ state'.run = state.run /\ state'.seen = state.seen
        /\ state'.cursor = state.cursor /\ state'.sequence = state.sequence
        /\ session' = session
    BY <1>1, <1>2 DEF Uninstall, Fields
  <2>2. Good(state') /\ View(state') = View(state)
    BY <1>1, <2>1, SameView
  <2> QED BY <1>1, <2>1, <2>2 DEF IInv, Counts, Remembers
<1>3. ASSUME NEW e \in Envelope, Take(e) PROVE IInv'
  <2> DEFINE r == Apply(state, e.data)
  <2>1. e.data \in SessionData(SnapshotContent) \cup {Lifecycle}
    BY DEF Envelope
  <2>2. Good(r) /\ r.seen = state.seen /\ View(r) = Effect(session, e.data)
    BY <1>1, <1>3, <2>1, ApplyFollows DEF Take
  <2>3. state' = Advance(r, e) /\ session' = Effect(session, e.data)
    BY <1>3 DEF Take
  <2> HIDE DEF r
  <2>4. Remembers(r)
    BY <1>1, <2>2 DEF Remembers
  <2> QED BY <2>2, <2>3, <2>4, AdvanceKeeps DEF IInv
<1>4. ASSUME NEW e \in Envelope, NEW content \in SnapshotContent, Establish(content, e) PROVE IInv'
  <2> DEFINE q == Install(state, content)
             r == [q EXCEPT !.seen = << >>]
  <2>1. Good(q) /\ View(q) = content
    BY <1>1, InstallFollows
  <2>2. state' = Advance(r, e) /\ session' = content
    BY <1>4 DEF Establish
  <2> HIDE DEF q
  <2>3. /\ DOMAIN r = DOMAIN q /\ r.items = q.items /\ r.order = q.order
        /\ r.todos = q.todos /\ r.run = q.run /\ r.seen = << >>
    BY <2>1 DEF Good, Listing, Fields
  <2> HIDE DEF r
  <2>4. Good(r) /\ View(r) = content
    BY <2>1, <2>3, SameView
  <2>5. Remembers(r)
    BY <2>3, EmptyIsSequence, EmptySeq, SeenLimitAssumption DEF Remembers
  <2> QED BY <2>2, <2>4, <2>5, AdvanceKeeps DEF IInv
<1>5. CASE UNCHANGED vars
  BY <1>5 DEF vars, IInv
<1> QED BY <1>2, <1>3, <1>4, <1>5 DEF Next

\* The copy has its fields, remembers no more envelopes than it should (remember)
\* and holds items, values and runs only.
THEOREM StateTypeOK == Spec => []TypeOK
<1>1. IInv => TypeOK
  <2> SUFFICES ASSUME IInv PROVE TypeOK
    OBVIOUS
  <2>1. Range(state.items) \subseteq Value
    BY DEF IInv, Good, Typed, Range
  <2>2. session \in Content
    BY ViewIsContent DEF IInv
  <2> QED BY <2>1, <2>2 DEF IInv, Good, Listing, Typed, Fields, Counts, Remembers, TypeOK
<1> QED BY <1>1, InitIInv, StepIInv, PTL DEF Spec

\* However items are added, removed, added again and replaced by snapshots, the
\* order lists the keys of the map, each once (messages and messageOrder,
\* interactions and interactionOrder).
THEOREM OrderAlwaysListsItems == Spec => []OrderListsItems
<1>1. IInv => OrderListsItems
  BY DEF IInv, Good, Listing, OrderListsItems, ToSet
<1> QED BY <1>1, InitIInv, StepIInv, PTL DEF Spec

\* Whatever envelopes arrive, the copy is the session that the last baseline and
\* the events taken since describe (applyRemoteSessionEvent): RemoteReplica may
\* say Effect for what the page does with an event.
THEOREM CopyFollowsSession == Spec => []FollowsSession
<1>1. IInv => FollowsSession
  BY DEF IInv, FollowsSession
<1> QED BY <1>1, InitIInv, StepIInv, PTL DEF Spec
====
