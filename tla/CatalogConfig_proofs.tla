------------------------ MODULE CatalogConfig_proofs ------------------------
(***************************************************************************)
(* The catalog configuration, for every set of names, tables and entries   *)
(* and any number of writes: its types, that no table is in two entries of *)
(* the stored document, and that what the API lists for the campaign form  *)
(* is what its validation accepts.  The third follows from the second: an  *)
(* entry for all tables of a schema is the only one of that schema.        *)
(***************************************************************************)
EXTENDS CatalogConfig, FiniteSetTheorems, SequenceTheorems, TLAPS

-----------------------------------------------------------------------------
(* Grouping rearranges: places of entries are told apart by the number of  *)
(* entries up to them, so each place has one entry.                        *)

LEMMA PlacesDiffer ==
  ASSUME NEW S, NEW s \in Seq(S)
  PROVE  /\ \A i \in DOMAIN s : Cardinality(UpTo(s, i)) \in DOMAIN s
         /\ \A i, j \in DOMAIN s : Cardinality(UpTo(s, i)) = Cardinality(UpTo(s, j)) => i = j
<1> DEFINE n == Len(s)
           D == 1 .. n
           before(i) == BeforeDatabase(s, i)
<1>1. n \in Nat /\ DOMAIN s = D
  OBVIOUS
<1>2. IsFiniteSet(D) /\ Cardinality(D) = n
  BY <1>1, FS_Interval
<1>3. \A i \in D : before(i) \in Nat
  <2> SUFFICES ASSUME NEW i \in D PROVE before(i) \in Nat
    OBVIOUS
  <2> DEFINE A == {j \in D : \A g \in 1..j : s[g].db # s[i].db}
  <2>1. IsFiniteSet(A)
    BY <1>2, FS_Subset
  <2>2. Cardinality(A) \in Nat
    BY <2>1, FS_CardinalityType
  <2> QED
    BY <1>1, <2>2 DEF BeforeDatabase
<1>4. \A i, j \in D : j \in UpTo(s, i) <=> \/ before(j) < before(i)
                                           \/ before(j) = before(i) /\ j <= i
  BY <1>1 DEF UpTo
<1>5. \A i \in D : UpTo(s, i) \subseteq D
  BY <1>1 DEF UpTo
<1> HIDE DEF before
<1>6. \A i \in D : IsFiniteSet(UpTo(s, i)) /\ Cardinality(UpTo(s, i)) \in Nat
                   /\ Cardinality(UpTo(s, i)) <= n
  <2> SUFFICES ASSUME NEW i \in D
               PROVE  IsFiniteSet(UpTo(s, i)) /\ Cardinality(UpTo(s, i)) \in Nat
                      /\ Cardinality(UpTo(s, i)) <= n
    OBVIOUS
  <2>1. IsFiniteSet(UpTo(s, i)) /\ Cardinality(UpTo(s, i)) <= Cardinality(D)
    BY <1>2, <1>5, FS_Subset
  <2> QED
    BY <1>2, <2>1, FS_CardinalityType
<1>7. \A i \in D : Cardinality(UpTo(s, i)) \in D
  <2> SUFFICES ASSUME NEW i \in D PROVE Cardinality(UpTo(s, i)) \in D
    OBVIOUS
  <2>1. i \in UpTo(s, i)
    BY <1>1, <1>3, <1>4
  <2>2. Cardinality(UpTo(s, i)) # 0
    BY <1>6, <2>1, FS_EmptySet
  <2> QED
    BY <1>1, <1>6, <2>2
<1>8. ASSUME NEW i \in D, NEW j \in D,
             before(i) < before(j) \/ (before(i) = before(j) /\ i < j)
      PROVE  Cardinality(UpTo(s, i)) # Cardinality(UpTo(s, j))
  <2>1. UpTo(s, i) \subseteq UpTo(s, j)
    <3> SUFFICES ASSUME NEW k \in UpTo(s, i) PROVE k \in UpTo(s, j)
      OBVIOUS
    <3>1. k \in D
      BY <1>5
    <3> QED
      BY <1>1, <1>3, <1>4, <1>8, <3>1
  <2>2. j \notin UpTo(s, i) /\ j \in UpTo(s, j)
    BY <1>1, <1>3, <1>4, <1>8
  <2> QED
    BY <1>6, <2>1, <2>2, FS_Subset
<1>9. ASSUME NEW i \in D, NEW j \in D, Cardinality(UpTo(s, i)) = Cardinality(UpTo(s, j))
      PROVE  i = j
  <2>1. before(i) \in Nat /\ before(j) \in Nat /\ i \in Nat /\ j \in Nat
    BY <1>1, <1>3
  <2>2. ~(before(i) < before(j) \/ (before(i) = before(j) /\ i < j))
    BY <1>8, <1>9
  <2>3. ~(before(j) < before(i) \/ (before(j) = before(i) /\ j < i))
    BY <1>8, <1>9
  <2>4. \A a, b \in Nat : /\ ~(a < b \/ (a = b /\ i < j))
                          /\ ~(b < a \/ (b = a /\ j < i))
                          => i = j
    BY <2>1
  <2> QED
    BY <2>1, <2>2, <2>3, <2>4, Zenon
<1> QED
  BY <1>1, <1>7, <1>9

LEMMA GroupedPermutes ==
  ASSUME NEW S, NEW s \in Seq(S)
  PROVE  /\ Grouped(s) \in Seq(S)
         /\ Len(Grouped(s)) = Len(s)
         /\ \A k \in DOMAIN s : /\ EntryAt(s, k) \in DOMAIN s
                                /\ Grouped(s)[k] = s[EntryAt(s, k)]
         /\ \A k, l \in DOMAIN s : EntryAt(s, k) = EntryAt(s, l) => k = l
<1> DEFINE D == DOMAIN s
           place == [i \in D |-> Cardinality(UpTo(s, i))]
<1>1. place \in Injection(D, D)
  BY PlacesDiffer DEF Injection, IsInjective
<1>2. IsFiniteSet(D)
  BY FS_Interval
<1>3. place \in Surjection(D, D)
  BY <1>1, <1>2, FS_Injection
<1>4. \A k \in D : \E i \in D : place[i] = k
  BY <1>3 DEF Surjection
<1>5. \A k \in D : EntryAt(s, k) \in D /\ Cardinality(UpTo(s, EntryAt(s, k))) = k
  BY <1>4 DEF EntryAt
<1> HIDE DEF place
<1>6. Grouped(s) = [k \in D |-> s[EntryAt(s, k)]]
  BY DEF Grouped
<1>7. \A k \in D : s[EntryAt(s, k)] \in S
  BY <1>5
<1> QED
  BY <1>5, <1>6, <1>7

\* What holds of any two entries holds of any two of those that are taken.
LEMMA TakenDisjoint ==
  ASSUME NEW s, NEW r, NEW from \in [DOMAIN r -> DOMAIN s], Disjoint(s),
         \A k, l \in DOMAIN r : from[k] = from[l] => k = l,
         \A k \in DOMAIN r : r[k] = s[from[k]]
  PROVE  Disjoint(r)
  BY DEF Disjoint

LEMMA GroupedDisjoint ==
  ASSUME NEW S, NEW s \in Seq(S), Disjoint(s) PROVE Disjoint(Grouped(s))
<1> DEFINE g == Grouped(s)
           from == [k \in DOMAIN g |-> EntryAt(s, k)]
<1>1. g \in Seq(S) /\ DOMAIN g = DOMAIN s
  BY GroupedPermutes
<1>2. \A k \in DOMAIN g : EntryAt(s, k) \in DOMAIN s /\ g[k] = s[EntryAt(s, k)]
  BY <1>1, GroupedPermutes
<1>3. \A k, l \in DOMAIN g : EntryAt(s, k) = EntryAt(s, l) => k = l
  BY <1>1, GroupedPermutes
<1> HIDE DEF g
<1>4. /\ from \in [DOMAIN g -> DOMAIN s]
      /\ \A k, l \in DOMAIN g : from[k] = from[l] => k = l
      /\ \A k \in DOMAIN g : g[k] = s[from[k]]
  BY <1>2, <1>3
<1> HIDE DEF from
<1>5. Disjoint(g)
  BY <1>4, TakenDisjoint
<1> QED
  BY <1>5 DEF g

-----------------------------------------------------------------------------
(* The entries of a page, one more or one less.                            *)

\* What the modal does to the entries: one is appended or replaced.
WithEntry(entries, index, entry) ==
  IF index = 0 THEN Append(entries, entry) ELSE [entries EXCEPT ![index] = entry]

LEMMA WithEntryIsSeq ==
  ASSUME NEW S, NEW s \in Seq(S), NEW entry \in S, NEW index \in 0 .. Len(s)
  PROVE  WithEntry(s, index, entry) \in Seq(S)
  BY DEF WithEntry

\* The check of the modal, against every entry but the one it edits.
LEMMA WithEntryDisjoint ==
  ASSUME NEW S, NEW s \in Seq(S), NEW entry \in S, NEW index \in 0 .. Len(s),
         Disjoint(s), ~Conflict(s, index, entry)
  PROVE  Disjoint(WithEntry(s, index, entry))
<1> DEFINE new == WithEntry(s, index, entry)
           at == IF index = 0 THEN Len(s) + 1 ELSE index
<1>1. /\ DOMAIN new = DOMAIN s \cup {at} /\ new[at] = entry
      /\ \A i \in DOMAIN new \ {at} : i \in DOMAIN s /\ i # index /\ new[i] = s[i]
  BY DEF WithEntry
<1>2. \A i \in DOMAIN s \ {index} :
        SameSchema(s[i], entry) =>
          /\ s[i].tables # {} /\ entry.tables # {}
          /\ \A t \in s[i].tables, u \in entry.tables : Folded[t] # Folded[u]
  BY DEF Conflict, TablesMeet
<1> HIDE DEF new, at
<1>3. \A i \in DOMAIN new \ {at} :
        SameSchema(new[i], new[at]) =>
          /\ new[i].tables # {} /\ new[at].tables # {}
          /\ \A t \in new[i].tables, u \in new[at].tables : Folded[t] # Folded[u]
  BY <1>1, <1>2
<1>4. Disjoint(new)
  <2> SUFFICES ASSUME NEW i \in DOMAIN new, NEW j \in DOMAIN new, i # j,
                      Folded[new[i].db] = Folded[new[j].db],
                      Folded[new[i].schema] = Folded[new[j].schema]
               PROVE  /\ new[i].tables # {} /\ new[j].tables # {}
                      /\ \A t \in new[i].tables, u \in new[j].tables : Folded[t] # Folded[u]
    BY DEF Disjoint
  <2>1. CASE i # at /\ j # at
    BY <1>1, <2>1 DEF Disjoint
  <2>2. CASE j = at
    BY <1>3, <2>2 DEF SameSchema
  <2>3. CASE i = at
    BY <1>3, <2>3 DEF SameSchema
  <2> QED
    BY <2>1, <2>2, <2>3
<1> QED
  BY <1>4 DEF new

LEMMA RemoveAtFacts ==
  ASSUME NEW S, NEW s \in Seq(S), NEW i \in DOMAIN s
  PROVE  /\ RemoveAt(s, i) \in Seq(S)
         /\ Disjoint(s) => Disjoint(RemoveAt(s, i))
<1> DEFINE r == RemoveAt(s, i)
           a == SubSeq(s, 1, i - 1)
           b == SubSeq(s, i + 1, Len(s))
<1>1. /\ a \in Seq(S) /\ Len(a) = i - 1
      /\ \A k \in 1 .. i - 1 : a[k] = s[k]
  BY SubSeqProperties
<1>2. /\ b \in Seq(S) /\ Len(b) = Len(s) - i
      /\ \A k \in 1 .. Len(s) - i : b[k] = s[i + k]
  BY SubSeqProperties
<1>3. r = a \o b
  BY DEF RemoveAt
<1> HIDE DEF a, b, r
<1>4. /\ r \in Seq(S) /\ Len(r) = Len(s) - 1
      /\ \A k \in 1 .. Len(r) : r[k] = s[IF k < i THEN k ELSE k + 1]
  <2>1. /\ r \in Seq(S) /\ Len(r) = Len(a) + Len(b)
        /\ \A k \in 1 .. Len(a) + Len(b) : r[k] = IF k <= Len(a) THEN a[k] ELSE b[k - Len(a)]
    BY <1>1, <1>2, <1>3, ConcatProperties
  <2>2. i \in 1 .. Len(s) /\ Len(s) \in Nat
    OBVIOUS
  <2>3. Len(r) = Len(s) - 1
    BY <1>1, <1>2, <2>1, <2>2
  <2>4. ASSUME NEW k \in 1 .. Len(r) PROVE r[k] = s[IF k < i THEN k ELSE k + 1]
    <3>1. CASE k < i
      BY <1>1, <1>2, <2>1, <2>2, <2>3, <3>1
    <3>2. CASE ~(k < i)
      <4>1. r[k] = b[k - (i - 1)] /\ k - (i - 1) \in 1 .. Len(s) - i
        BY <1>1, <1>2, <2>1, <2>2, <2>3, <3>2
      <4>2. b[k - (i - 1)] = s[i + (k - (i - 1))] /\ i + (k - (i - 1)) = k + 1
        BY <1>2, <2>2, <4>1
      <4> QED
        BY <3>2, <4>1, <4>2
    <3> QED
      BY <3>1, <3>2
  <2> QED
    BY <2>1, <2>3, <2>4
<1>5. Disjoint(s) => Disjoint(r)
  <2> DEFINE from == [k \in DOMAIN r |-> IF k < i THEN k ELSE k + 1]
  <2>1. from \in [DOMAIN r -> DOMAIN s]
    BY <1>4
  <2>2. \A k, l \in DOMAIN r : from[k] = from[l] => k = l
    BY <1>4
  <2>3. \A k \in DOMAIN r : r[k] = s[from[k]]
    BY <1>4
  <2> HIDE DEF from
  <2> QED
    BY <2>1, <2>2, <2>3, TakenDisjoint
<1> QED
  BY <1>4, <1>5 DEF r

\* Entries that were built in a modal are disjoint.
LEMMA BuiltDisjoint ==
  ASSUME NEW n \in Nat, NEW s \in [1 .. n -> Scope],
         \A i \in 1 .. n : ~Conflict(s, i, s[i])
  PROVE  s \in Seq(Scope) /\ Disjoint(s)
<1>1. s \in Seq(Scope) /\ DOMAIN s = 1 .. n
  OBVIOUS
<1>2. Disjoint(s)
  BY <1>1 DEF Conflict, SameSchema, TablesMeet, Disjoint
<1> QED
  BY <1>1, <1>2

-----------------------------------------------------------------------------
(* Types.                                                                  *)

Document == [entries : Seq(Scope), updatedAt : 1 .. MaxPuts]

Page == [config : Document \cup {Null}, entries : Seq(Scope), modal : BOOLEAN,
         index : Nat, sent : Seq(Scope) \cup {Null}]

TypeInv ==
  /\ stored \in Document \cup {Null}
  /\ page \in Page
  /\ page.index <= Len(page.entries)
  /\ ~page.modal => page.index = 0
  /\ commands \subseteq Scope /\ capture \subseteq Scope
  /\ latest \in [Databases -> (SUBSET Server) \cup {Null}]

LEMMA TypeInit == Init => TypeInv
<1> SUFFICES ASSUME Init PROVE TypeInv
  OBVIOUS
<1>1. <<>> \in Seq(Scope)
  OBVIOUS
<1>2. page \in Page /\ page.index = 0 /\ page.entries = <<>> /\ Len(page.entries) = 0
  BY <1>1 DEF Init, EmptyPage, Page
<1> QED
  BY <1>2 DEF Init, TypeInv

LEMMA ServerEntriesType ==
  ASSUME NEW p \in Page PROVE ServerEntries(p) \in Seq(Scope)
<1>1. <<>> \in Seq(Scope)
  OBVIOUS
<1> QED
  BY <1>1 DEF ServerEntries, Page, Document

LEMMA SyncedType ==
  ASSUME NEW p \in Page, NEW config \in Document \cup {Null}
  PROVE  LET q == Synced(config, p)
         IN  /\ q \in Page /\ q.index = 0 /\ q.config = config
             /\ q.entries = ServerEntries(q) /\ q.sent = p.sent /\ q.modal = p.modal
<1> DEFINE b == [p EXCEPT !.config = config, !.index = 0]
           q == [b EXCEPT !.entries = ServerEntries(b)]
<1>1. b \in Page /\ b.index = 0 /\ b.config = config /\ b.sent = p.sent /\ b.modal = p.modal
  BY DEF Page
<1>2. ServerEntries(b) \in Seq(Scope)
  BY <1>1, ServerEntriesType
<1> HIDE DEF b
<1>3. /\ q \in Page /\ q.index = 0 /\ q.config = config /\ q.sent = p.sent
      /\ q.modal = p.modal /\ q.entries = ServerEntries(b)
  BY <1>1, <1>2 DEF Page
<1>4. ServerEntries(q) = ServerEntries(b)
  BY <1>1, <1>3 DEF ServerEntries
<1>5. q = Synced(config, p)
  BY DEF Synced, b
<1> HIDE DEF q
<1> QED
  BY <1>3, <1>4, <1>5

LEMMA ReplaceType ==
  ASSUME stored \in Document \cup {Null}, NEW entries \in Seq(Scope), Replace(entries)
  PROVE  stored' \in Document /\ stored'.entries = entries
<1>1. Puts \in Nat
  BY CatalogAssumption DEF Puts, Document
<1>2. Puts + 1 \in 1 .. MaxPuts
  BY <1>1, CatalogAssumption DEF Replace
<1> QED
  BY <1>2 DEF Replace, Document

\* What the lists of the API name is known to the pages or to the server.
LEMMA ListedAreNames ==
  ASSUME TypeInv, NEW db \in ListCatalogDatabases, NEW schema \in ListCatalogSchemas(db),
         NEW table \in ListCatalogTables(db, schema)
  PROVE  [db |-> db, schema |-> schema, tables |-> {table}] \in Scope
<1>1. \A x \in Databases : latest[x] \in (SUBSET Server) \cup {Null}
  BY DEF TypeInv
<1>2. stored # Null => \A e \in ToSet(stored.entries) : e \in Scope
  BY DEF TypeInv, Document, ToSet
<1>3. db \in Databases
  BY <1>2 DEF ListCatalogDatabases, Scope
<1>4. ScopeOf(db) \subseteq Scope
  BY <1>2 DEF ScopeOf
<1>5. schema \in Schemas
  BY <1>1, <1>3, <1>4 DEF ListCatalogSchemas, Schemas, Scope
<1>6. table \in Tables
  <2>1. CASE ConfigTableNames(db, schema) # Null
    BY <1>4, <2>1 DEF ListCatalogTables, ConfigTableNames, Scope
  <2>2. CASE ConfigTableNames(db, schema) = Null
    BY <1>1, <1>3, <2>2 DEF ListCatalogTables, Tables
  <2> QED
    BY <2>1, <2>2
<1> QED
  BY <1>3, <1>5, <1>6 DEF Scope

LEMMA TypeNext == TypeInv /\ [Next]_vars => TypeInv'
<1> SUFFICES ASSUME TypeInv, [Next]_vars PROVE TypeInv'
  OBVIOUS
<1> DEFINE PageOK == page \in Page /\ page.index <= Len(page.entries) /\ (~page.modal => page.index = 0)
<1>1. ASSUME PageOK', UNCHANGED <<stored, commands, capture, latest>> PROVE TypeInv'
  BY <1>1 DEF TypeInv
<1>2. CASE Fetch
  <2>1. page' = Synced(stored, page) /\ UNCHANGED <<stored, commands, capture, latest>>
    BY <1>2 DEF Fetch, runnerVars
  <2>2. page' \in Page /\ page'.index = 0
    BY <2>1, SyncedType DEF TypeInv
  <2>3. Len(page'.entries) \in Nat
    BY <2>2 DEF Page
  <2> QED
    BY <1>1, <2>1, <2>2, <2>3
<1>3. CASE OpenModal \/ CloseModal
  <2>1. CASE OpenModal
    <3>1. PICK i \in 0 .. Len(page.entries) : page' = [page EXCEPT !.modal = TRUE, !.index = i]
      BY <2>1 DEF OpenModal
    <3>2. page \in Page /\ page.entries \in Seq(Scope)
      BY DEF TypeInv, Page
    <3>3. i \in Nat /\ i <= Len(page.entries)
      BY <3>2
    <3>4. PageOK'
      BY <3>1, <3>2, <3>3 DEF Page
    <3> HIDE DEF PageOK
    <3> QED
      BY <1>1, <2>1, <3>4 DEF OpenModal, runnerVars
  <2>2. CASE CloseModal
    <3>1. page' \in Page /\ page'.index = 0
      BY <2>2 DEF CloseModal, TypeInv, Page
    <3>2. Len(page'.entries) \in Nat
      BY <3>1 DEF Page
    <3> QED
      BY <1>1, <2>2, <3>1, <3>2 DEF CloseModal, runnerVars
  <2> QED
    BY <1>3, <2>1, <2>2
<1>4. ASSUME NEW entry \in Typed, SaveEntry(entry) PROVE TypeInv'
  <2> DEFINE new == WithEntry(page.entries, page.index, entry)
  <2>1. page' = [page EXCEPT !.modal = FALSE, !.index = 0, !.entries = new]
        /\ UNCHANGED <<stored, commands, capture, latest>>
    BY <1>4 DEF SaveEntry, runnerVars, WithEntry
  <2>2. new \in Seq(Scope)
    BY CatalogAssumption, WithEntryIsSeq DEF TypeInv, Page
  <2> HIDE DEF new
  <2>3. Len(new) \in Nat
    BY <2>2
  <2>4. page' \in Page /\ page'.index = 0 /\ page'.entries = new
    BY <2>1, <2>2 DEF TypeInv, Page
  <2> QED
    BY <1>1, <2>1, <2>3, <2>4
<1>5. CASE DeleteEntry
  <2>1. PICK i \in DOMAIN page.entries : page' = [page EXCEPT !.entries = RemoveAt(page.entries, i)]
    BY <1>5 DEF DeleteEntry
  <2>2. RemoveAt(page.entries, i) \in Seq(Scope)
    BY RemoveAtFacts DEF TypeInv, Page
  <2>3. page' \in Page /\ page'.index = 0
    BY <1>5, <2>1, <2>2 DEF DeleteEntry, TypeInv, Page
  <2>4. Len(page'.entries) \in Nat
    BY <2>3 DEF Page
  <2> QED
    BY <1>1, <1>5, <2>3, <2>4 DEF DeleteEntry, runnerVars
<1>6. CASE Discard
  <2>1. page' = Synced(page.config, page) /\ UNCHANGED <<stored, commands, capture, latest>>
    BY <1>6 DEF Discard, runnerVars
  <2>2. page.config \in Document \cup {Null}
    BY DEF TypeInv, Page
  <2>3. page' \in Page /\ page'.index = 0
    BY <2>1, <2>2, SyncedType DEF TypeInv
  <2>4. Len(page'.entries) \in Nat
    BY <2>3 DEF Page
  <2> QED
    BY <1>1, <2>1, <2>3, <2>4
<1>7. CASE SaveConfig
  <2>1. Grouped(page.entries) \in Seq(Scope)
    BY GroupedPermutes DEF TypeInv, Page
  <2> QED
    BY <1>1, <1>7, <2>1 DEF SaveConfig, runnerVars, TypeInv, Page
<1>8. CASE PutFails
  BY <1>1, <1>8 DEF PutFails, runnerVars, TypeInv, Page
<1>9. CASE PutCatalogConfig
  <2>1. page.sent \in Seq(Scope)
    BY <1>9 DEF PutCatalogConfig, TypeInv, Page
  <2>2. stored' \in Document
    BY <1>9, <2>1, ReplaceType DEF PutCatalogConfig, TypeInv
  <2>3. PageOK'
    BY <1>9 DEF PutCatalogConfig, TypeInv, Page
  <2> QED
    BY <1>9, <2>2, <2>3 DEF PutCatalogConfig, runnerVars, TypeInv
<1>10. CASE SavedElsewhere
  <2>1. PICK n \in 0 .. MaxEntries :
          \E es \in [1 .. n -> Typed] : Replace(Grouped(es))
    BY <1>10 DEF SavedElsewhere
  <2> PICK entries \in [1 .. n -> Typed] : Replace(Grouped(entries))
    BY <2>1
  <2>2. entries \in Seq(Scope)
    BY CatalogAssumption
  <2>3. Grouped(entries) \in Seq(Scope)
    BY <2>2, GroupedPermutes
  <2>4. stored' \in Document
    BY <2>3, ReplaceType DEF TypeInv
  <2> QED
    BY <1>10, <2>4 DEF SavedElsewhere, runnerVars, TypeInv
<1>11. ASSUME NEW scope \in Scope, Request(scope) PROVE TypeInv'
  BY <1>11 DEF Request, TypeInv
<1>12. CASE RunCapture
  <2>1. PICK i \in DOMAIN page.entries : Request(page.entries[i])
    BY <1>12 DEF RunCapture
  <2>2. page.entries[i] \in Scope
    BY DEF TypeInv, Page
  <2> QED
    BY <1>11, <2>1, <2>2
<1>13. CASE RunFiltered
  BY <1>11, <1>13, ListedAreNames DEF RunFiltered
<1>14. CASE JobBegins
  <2>1. ToSet(stored.entries) \subseteq Scope
    BY <1>14 DEF JobBegins, TypeInv, Document, ToSet
  <2> QED
    BY <1>14, <2>1 DEF JobBegins, TypeInv
<1>15. CASE CommandBegins \/ CaptureFails
  BY <1>15 DEF CommandBegins, CaptureFails, TypeInv
<1>16. CASE CaptureDatabase
  <2>1. PICK db \in {e.db : e \in capture} :
          /\ \E docs \in SUBSET UNION {OnServer(e) : e \in {x \in capture : x.db = db}} :
               latest' = IF docs = {} THEN latest ELSE [latest EXCEPT ![db] = docs]
          /\ capture' \subseteq capture
    BY <1>16 DEF CaptureDatabase
  <2>2. PICK docs \in SUBSET UNION {OnServer(e) : e \in {x \in capture : x.db = db}} :
          latest' = IF docs = {} THEN latest ELSE [latest EXCEPT ![db] = docs]
    BY <2>1
  <2>3. docs \subseteq Server
    BY DEF OnServer
  <2>4. latest' \in [Databases -> (SUBSET Server) \cup {Null}]
    BY <2>2, <2>3 DEF TypeInv
  <2> QED
    BY <1>16, <2>1, <2>4 DEF CaptureDatabase, TypeInv
<1>17. CASE UNCHANGED vars
  BY <1>17 DEF vars, TypeInv
<1> QED
  BY <1>2, <1>3, <1>4, <1>5, <1>6, <1>7, <1>8, <1>9, <1>10, <1>12, <1>13, <1>14, <1>15,
     <1>16, <1>17 DEF Next, Editor, Api, Runner

\* Whatever is typed, fetched, saved and captured, in whatever order: an index
\* names an entry, also after a fetch under an open modal (ScopeEditor.tsx).
THEOREM CatalogTypes == Spec => []CatalogTypeOK
<1>1. TypeInv => CatalogTypeOK
  BY DEF TypeInv, CatalogTypeOK, Document, Page
<1> QED
  BY <1>1, TypeInit, TypeNext, PTL DEF Spec

-----------------------------------------------------------------------------
(* No table is in two entries.                                             *)

\* The entries of the stored document, of the page's copy of it, of the page
\* and of the request under way.  The API compares the names of databases
\* as they are spelled, so the last two are up to the checks of the page.
DisjointInv ==
  /\ stored # Null => Disjoint(stored.entries)
  /\ Disjoint(ServerEntries(page))
  /\ Disjoint(page.entries)
  /\ page.sent # Null => Disjoint(page.sent)

LEMMA NoneDisjoint == Disjoint(<<>>)
  BY DEF Disjoint

LEMMA DisjointInit == Init => DisjointInv
<1> SUFFICES ASSUME Init PROVE DisjointInv
  OBVIOUS
<1>1. stored = Null /\ page.config = Null /\ page.entries = <<>> /\ page.sent = Null
  BY DEF Init, EmptyPage
<1> QED
  BY <1>1, NoneDisjoint DEF DisjointInv, ServerEntries

\* A page that shows what a configuration says.
LEMMA SyncedDisjoint ==
  ASSUME page \in Page, NEW config \in Document \cup {Null}, DisjointInv,
         config # Null => Disjoint(config.entries),
         page' = Synced(config, page), stored' = stored
  PROVE  DisjointInv'
<1>1. /\ page'.config = config /\ page'.sent = page.sent
      /\ page'.entries = ServerEntries(page')
  BY SyncedType
<1>2. Disjoint(ServerEntries(page'))
  BY <1>1, NoneDisjoint DEF ServerEntries
<1>3. Disjoint(ServerEntries(page)')
  BY <1>2 DEF ServerEntries
<1> QED
  BY <1>1, <1>2, <1>3 DEF DisjointInv

LEMMA DisjointNext == TypeInv /\ DisjointInv /\ [Next]_vars => DisjointInv'
<1> SUFFICES ASSUME TypeInv, DisjointInv, [Next]_vars PROVE DisjointInv'
  OBVIOUS
<1>1. ASSUME page'.config = page.config, Disjoint(page'.entries),
             page'.sent # Null => Disjoint(page'.sent), stored' = stored
      PROVE  DisjointInv'
  BY <1>1 DEF DisjointInv, ServerEntries
<1>2. page \in Page
  BY DEF TypeInv
<1>3. CASE Fetch
  BY <1>2, <1>3, SyncedDisjoint DEF Fetch, TypeInv, DisjointInv
<1>4. CASE Discard
  <2>1. page.config \in Document \cup {Null} /\ (page.config # Null => Disjoint(page.config.entries))
    BY <1>2 DEF Page, DisjointInv, ServerEntries
  <2> QED
    BY <1>2, <1>4, <2>1, SyncedDisjoint DEF Discard
<1>5. CASE OpenModal \/ CloseModal
  <2>1. page'.config = page.config /\ page'.entries = page.entries /\ page'.sent = page.sent
    BY <1>2, <1>5 DEF OpenModal, CloseModal, Page
  <2> QED
    BY <1>1, <1>5, <2>1 DEF OpenModal, CloseModal, DisjointInv
<1>6. ASSUME NEW entry \in Typed, SaveEntry(entry) PROVE DisjointInv'
  <2> DEFINE new == WithEntry(page.entries, page.index, entry)
  <2>1. page' = [page EXCEPT !.modal = FALSE, !.index = 0, !.entries = new] /\ stored' = stored
    BY <1>6 DEF SaveEntry, WithEntry
  <2>2. Disjoint(new)
    <3>1. page.index \in 0 .. Len(page.entries) /\ page.entries \in Seq(Scope) /\ entry \in Scope
      BY CatalogAssumption DEF TypeInv, Page
    <3> QED
      BY <1>6, <3>1, WithEntryDisjoint DEF SaveEntry, DisjointInv
  <2> HIDE DEF new
  <2>3. page'.config = page.config /\ page'.entries = new /\ page'.sent = page.sent
    BY <1>2, <2>1 DEF Page
  <2> QED
    BY <1>1, <2>1, <2>2, <2>3 DEF DisjointInv
<1>7. CASE DeleteEntry
  <2>1. PICK i \in DOMAIN page.entries : page' = [page EXCEPT !.entries = RemoveAt(page.entries, i)]
    BY <1>7 DEF DeleteEntry
  <2>2. Disjoint(RemoveAt(page.entries, i))
    BY <1>2, RemoveAtFacts DEF Page, DisjointInv
  <2>3. /\ page'.config = page.config /\ page'.sent = page.sent
        /\ page'.entries = RemoveAt(page.entries, i)
    BY <1>2, <2>1 DEF Page
  <2> QED
    BY <1>1, <1>7, <2>2, <2>3 DEF DeleteEntry, DisjointInv
<1>8. CASE SaveConfig
  <2>1. Disjoint(Grouped(page.entries))
    BY <1>2, GroupedDisjoint DEF Page, DisjointInv
  <2>2. /\ page'.config = page.config /\ page'.entries = page.entries
        /\ page'.sent = Grouped(page.entries)
    BY <1>2, <1>8 DEF SaveConfig, Page
  <2> QED
    BY <1>1, <1>8, <2>1, <2>2 DEF SaveConfig, DisjointInv
<1>9. CASE PutFails
  <2>1. page'.config = page.config /\ page'.entries = page.entries /\ page'.sent = Null
    BY <1>2, <1>9 DEF PutFails, Page
  <2> QED
    BY <1>1, <1>9, <2>1 DEF PutFails, DisjointInv
<1>10. CASE PutCatalogConfig
  <2>1. stored'.entries = page.sent /\ page.sent # Null
    BY <1>10 DEF PutCatalogConfig, Replace
  <2>2. page'.config = page.config /\ page'.entries = page.entries /\ page'.sent = Null
    BY <1>2, <1>10 DEF PutCatalogConfig, Page
  <2> QED
    BY <2>1, <2>2 DEF DisjointInv, ServerEntries
<1>11. CASE SavedElsewhere
  <2>1. PICK n \in 0 .. MaxEntries :
          \E es \in [1 .. n -> Typed] :
            (\A i \in 1 .. n : ~Conflict(es, i, es[i])) /\ Replace(Grouped(es))
    BY <1>11 DEF SavedElsewhere
  <2>2. PICK es \in [1 .. n -> Typed] :
          (\A i \in 1 .. n : ~Conflict(es, i, es[i])) /\ Replace(Grouped(es))
    BY <2>1
  <2>3. n \in Nat /\ es \in [1 .. n -> Scope]
    BY CatalogAssumption
  <2>4. es \in Seq(Scope) /\ Disjoint(es)
    BY <2>2, <2>3, BuiltDisjoint
  <2>5. Disjoint(Grouped(es))
    BY <2>4, GroupedDisjoint
  <2>6. stored'.entries = Grouped(es) /\ page' = page
    BY <1>11, <2>2 DEF SavedElsewhere, Replace
  <2> QED
    BY <2>5, <2>6 DEF DisjointInv, ServerEntries
<1>12. CASE UNCHANGED <<stored, page>>
  BY <1>12 DEF DisjointInv, ServerEntries
<1>13. CASE RunCapture \/ RunFiltered \/ Runner \/ UNCHANGED vars
  BY <1>12, <1>13 DEF RunCapture, RunFiltered, Request, Runner, JobBegins, CommandBegins,
       CaptureDatabase, CaptureFails, vars
<1> QED
  BY <1>3, <1>4, <1>5, <1>6, <1>7, <1>8, <1>9, <1>10, <1>11, <1>13 DEF Next, Editor, Api

\* No table is in two entries of the stored configuration, whatever the
\* spellings, however often a page fetches under an open modal, and whoever
\* saves (the checks of ScopeEditor.tsx; putCatalogConfig alone does not
\* compare two spellings of a database).
THEOREM EntriesStayDisjoint == Spec => []StoredEntriesDisjoint
<1>1. DisjointInv => StoredEntriesDisjoint
  BY DEF DisjointInv, StoredEntriesDisjoint
<1> QED
  BY <1>1, TypeInit, TypeNext, DisjointInit, DisjointNext, PTL DEF Spec

-----------------------------------------------------------------------------
(* What is listed is accepted.                                             *)

\* An entry for all tables of a schema is the only entry of that schema.
LEMMA AllTablesAlone ==
  ASSUME stored # Null, stored.entries \in Seq(Scope), Disjoint(stored.entries),
         NEW db, NEW schema,
         NEW e \in ScopeOf(db), e.schema = schema, e.tables = {},
         NEW f \in ScopeOf(db), f.schema = schema
  PROVE  f = e
<1>1. PICK i \in DOMAIN stored.entries : stored.entries[i] = e
  BY DEF ScopeOf, ToSet
<1>2. PICK j \in DOMAIN stored.entries : stored.entries[j] = f
  BY DEF ScopeOf, ToSet
<1>3. e.db = f.db
  BY DEF ScopeOf
<1> QED
  BY <1>1, <1>2, <1>3 DEF Disjoint

LEMMA ListedPasses ==
  ASSUME TypeInv, DisjointInv PROVE ListedIsAccepted
<1> SUFFICES ASSUME stored # Null, stored.entries # <<>>,
                    NEW db \in ListCatalogDatabases, NEW schema \in ListCatalogSchemas(db),
                    NEW tables \in SUBSET ListCatalogTables(db, schema)
             PROVE  ScopeIsValid(db, schema, tables)
  BY DEF ListedIsAccepted
<1> DEFINE es == {e \in ScopeOf(db) : e.schema = schema}
           merged == UNION {e.tables : e \in es}
<1>1. stored.entries \in Seq(Scope) /\ Disjoint(stored.entries)
  BY DEF TypeInv, Document, DisjointInv
<1>2. es # {}
  <2>1. ScopeOf(db) # {}
    BY DEF ListCatalogDatabases, ScopeOf
  <2> QED
    BY <2>1 DEF ListCatalogSchemas
<1>3. CASE \E e \in es : e.tables = {}
  <2> PICK e \in es : e.tables = {}
    BY <1>3
  <2>1. \A f \in es : f = e
    BY <1>1, AllTablesAlone
  <2>2. merged = {}
    BY <2>1
  <2> QED
    BY <1>2, <2>2 DEF ScopeIsValid
<1>4. CASE ~\E e \in es : e.tables = {}
  <2>1. ConfigTableNames(db, schema) = merged
    BY <1>2, <1>4 DEF ConfigTableNames
  <2>2. merged \in SUBSET Tables
    <3>1. \A e \in es : e \in Scope
      BY <1>1 DEF ScopeOf, ToSet
    <3>2. \A e \in es : e.tables \subseteq Tables
      BY <3>1 DEF Scope
    <3> QED
      BY <3>2
  <2>3. ListCatalogTables(db, schema) = merged
    BY <2>1, <2>2, CatalogAssumption DEF ListCatalogTables
  <2> QED
    BY <1>2, <2>3 DEF ScopeIsValid
<1> QED
  BY <1>3, <1>4

\* ListedIsAccepted: with a configuration that names databases, the campaign
\* form offers only what createCampaign accepts: a merge of entries is empty
\* only where one of them stands for all tables (listCatalogTables,
\* validateScopeAgainstCatalogConfig).
THEOREM ListedPassesValidation == Spec => []ListedIsAccepted
  BY ListedPasses, TypeInit, TypeNext, DisjointInit, DisjointNext, PTL DEF Spec
=============================================================================
