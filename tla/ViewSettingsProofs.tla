-------------------------- MODULE ViewSettingsProofs --------------------------
(***************************************************************************)
(* Theorems about the views of a database and their settings, for any      *)
(* number of browser tabs, views, presets and operations.                  *)
(***************************************************************************)
EXTENDS ViewSettings, BoundedSets, SequenceTheorems, FiniteSetTheorems, TLAPS

-----------------------------------------------------------------------------
(* Lists from which an element is taken and put back.                      *)

LEMMA PlaceOf ==
    ASSUME NEW T, NEW q \in Seq(T), IsInjective(q), NEW a \in Range(q)
    PROVE  /\ Place(q, a) \in 1 .. Len(q) /\ q[Place(q, a)] = a
           /\ \A i \in 1 .. Len(q) : q[i] = a => i = Place(q, a)
<1>1. DOMAIN q = 1 .. Len(q)
  BY LenProperties
<1>2. \E k \in DOMAIN q : q[k] = a
  BY DEF Range
<1>3. Place(q, a) \in DOMAIN q /\ q[Place(q, a)] = a
  BY <1>2 DEF Place
<1>4. QED
  BY <1>1, <1>3 DEF IsInjective

LEMMA TakenOut ==
    ASSUME NEW T, NEW q \in Seq(T), IsInjective(q), NEW a \in Range(q)
    PROVE  /\ Without(q, a) \in Seq(T) /\ IsInjective(Without(q, a))
           /\ Range(Without(q, a)) = Range(q) \ {a}
<1> DEFINE p == Place(q, a)
           r == Without(q, a)
<1>1. /\ p \in 1 .. Len(q) /\ q[p] = a
      /\ \A i \in 1 .. Len(q) : q[i] = a => i = p
  BY PlaceOf
<1> HIDE DEF p
<1>2. /\ r \in Seq(T) /\ Len(r) = Len(q) - 1
      /\ \A i \in 1 .. Len(q) - 1 : r[i] = IF i < p THEN q[i] ELSE q[i + 1]
  BY <1>1, RemovedAt DEF Without, p
<1> HIDE DEF r
<1>3. DOMAIN q = 1 .. Len(q) /\ DOMAIN r = 1 .. Len(q) - 1 /\ Len(q) \in Nat
  BY <1>2, LenProperties
<1>4. \A i, j \in 1 .. Len(q) : q[i] = q[j] => i = j
  BY <1>3 DEF IsInjective
<1>5. IsInjective(r)
  <2>1. ASSUME NEW i \in 1 .. Len(q) - 1, NEW j \in 1 .. Len(q) - 1, r[i] = r[j] PROVE i = j
    <3>1. i \in 1 .. Len(q) /\ i + 1 \in 1 .. Len(q) /\ j \in 1 .. Len(q) /\ j + 1 \in 1 .. Len(q)
      BY <1>3
    <3>2. CASE i < p /\ j < p
      BY <1>2, <1>4, <2>1, <3>1, <3>2
    <3>3. CASE ~(i < p) /\ ~(j < p)
      <4>1. i + 1 = j + 1
        BY <1>2, <1>4, <2>1, <3>1, <3>3
      <4>2. QED
        BY <3>1, <4>1
    <3>4. CASE i < p /\ ~(j < p)
      <4>1. i = j + 1
        BY <1>2, <1>4, <2>1, <3>1, <3>4
      <4>2. QED
        BY <1>1, <3>1, <3>4, <4>1
    <3>5. CASE ~(i < p) /\ j < p
      <4>1. i + 1 = j
        BY <1>2, <1>4, <2>1, <3>1, <3>5
      <4>2. QED
        BY <1>1, <3>1, <3>5, <4>1
    <3>6. QED
      BY <3>2, <3>3, <3>4, <3>5
  <2>2. QED
    BY <1>3, <2>1 DEF IsInjective
<1>6. ASSUME NEW x \in Range(q) \ {a} PROVE x \in Range(r)
  <2>1. PICK i \in 1 .. Len(q) : q[i] = x
    BY <1>3 DEF Range
  <2>2. i # p
    BY <1>1, <2>1, <1>6
  <2>3. CASE i < p
    <3>1. i \in 1 .. Len(q) - 1
      BY <1>1, <1>3, <2>3
    <3>2. r[i] = x
      BY <1>2, <2>1, <2>3, <3>1
    <3>3. QED
      BY <1>3, <3>1, <3>2 DEF Range
  <2>4. CASE i > p
    <3>1. i - 1 \in 1 .. Len(q) - 1 /\ ~(i - 1 < p) /\ i - 1 + 1 = i
      BY <1>1, <1>3, <2>4
    <3>2. r[i - 1] = x
      BY <1>2, <2>1, <3>1
    <3>3. QED
      BY <1>3, <3>1, <3>2 DEF Range
  <2>5. QED
    BY <1>1, <2>2, <2>3, <2>4
<1>7. ASSUME NEW i \in 1 .. Len(q) - 1 PROVE r[i] \in Range(q) \ {a}
  <2>1. i \in 1 .. Len(q) /\ i + 1 \in 1 .. Len(q)
    BY <1>3
  <2>2. \E k \in 1 .. Len(q) : r[i] = q[k] /\ k # p
    <3>1. CASE i < p
      BY <1>1, <1>2, <2>1, <3>1
    <3>2. CASE ~(i < p)
      <4>1. i + 1 # p
        BY <1>1, <2>1, <3>2
      <4>2. QED
        BY <1>2, <2>1, <3>2, <4>1
    <3>3. QED
      BY <3>1, <3>2
  <2>3. QED
    BY <1>1, <1>3, <2>2 DEF Range
<1>8. Range(r) \subseteq Range(q) \ {a}
  BY <1>3, <1>7 DEF Range
<1>9. QED
  BY <1>2, <1>5, <1>6, <1>8 DEF r

LEMMA PutBack ==
    ASSUME NEW T, NEW r \in Seq(T), IsInjective(r), NEW a \in T, a \notin Range(r),
           NEW p \in 1 .. Len(r) + 1
    PROVE  LET d == InsertAt(r, p, a)
           IN  /\ d \in Seq(T) /\ IsInjective(d) /\ a \in Range(d)
               /\ Range(d) = Range(r) \cup {a}
               /\ d[p] = a /\ p \in 1 .. Len(d) /\ Len(d) = Len(r) + 1
               /\ p <= Len(r) => d[p + 1] = r[p]
               /\ Without(d, a) = r
<1> DEFINE d == InsertAt(r, p, a)
<1>1. /\ d \in Seq(T) /\ Len(d) = Len(r) + 1 /\ IsInjective(d) /\ Range(d) = Range(r) \cup {a}
      /\ \A i \in 1 .. Len(r) + 1 : d[i] = IF i < p THEN r[i] ELSE IF i = p THEN a ELSE r[i - 1]
  BY InsertedOnce
<1> HIDE DEF d
<1>2. DOMAIN r = 1 .. Len(r) /\ DOMAIN d = 1 .. Len(r) + 1 /\ Len(r) \in Nat
  BY <1>1, LenProperties
<1>3. /\ \A i \in 1 .. Len(r) : r[i] # a
      /\ \A i, j \in 1 .. Len(r) : r[i] = r[j] => i = j
  BY <1>2 DEF Range, IsInjective
<1>4. d[p] = a
  BY <1>1
<1>5. IsInjective(d)
  BY <1>1
<1>6. Range(d) = Range(r) \cup {a}
  BY <1>1
<1>7. Without(d, a) = r
  <2> DEFINE w == Without(d, a)
  <2>1. a \in Range(d)
    BY <1>6
  <2>2. Place(d, a) = p
    BY <1>1, <1>4, <1>5, <2>1, PlaceOf
  <2>3. /\ w \in Seq(T) /\ Len(w) = Len(d) - 1
        /\ \A i \in 1 .. Len(d) - 1 : w[i] = IF i < p THEN d[i] ELSE d[i + 1]
    BY <1>1, <2>2, RemovedAt, ZenonT(40) DEF Without
  <2> HIDE DEF w
  <2>4. Len(w) = Len(r)
    BY <1>1, <1>2, <2>3
  <2>5. ASSUME NEW i \in 1 .. Len(r) PROVE w[i] = r[i]
    <3>1. i \in 1 .. Len(d) - 1
      BY <1>1, <1>2
    <3>2. CASE i < p
      <4>1. i \in 1 .. Len(r) + 1
        BY <1>2
      <4>2. QED
        BY <1>1, <2>3, <3>1, <3>2, <4>1
    <3>3. CASE ~(i < p)
      <4>1. i + 1 \in 1 .. Len(r) + 1 /\ ~(i + 1 < p) /\ i + 1 # p /\ i + 1 - 1 = i
        BY <1>2, <3>3
      <4>2. w[i] = d[i + 1]
        BY <2>3, <3>1, <3>3
      <4>3. QED
        BY <1>1, <4>1, <4>2
    <3>4. QED
      BY <3>2, <3>3
  <2>6. w = r
    BY <2>3, <2>4, <2>5, SeqEqual
  <2>7. QED
    BY <2>6 DEF w
<1>8. p <= Len(r) => d[p + 1] = r[p]
  <2>1. SUFFICES ASSUME p <= Len(r) PROVE d[p + 1] = r[p]
    OBVIOUS
  <2>2. p + 1 \in 1 .. Len(r) + 1 /\ ~(p + 1 < p) /\ p + 1 # p /\ p + 1 - 1 = p
    BY <1>2, <2>1
  <2>3. QED
    BY <1>1, <2>2
<1>9. p \in 1 .. Len(d) /\ a \in Range(d)
  BY <1>1, <1>6
<1>10. QED
  BY <1>1, <1>4, <1>5, <1>6, <1>7, <1>8, <1>9 DEF d

(* A view dropped on another, or made the first: the rest stays as it was, *)
(* and it stands right before the one it was dropped on.                   *)
LEMMA DroppedList ==
    ASSUME NEW T, NEW q \in Seq(T), IsInjective(q), NEW a \in Range(q), NEW b \in Range(q) \ {a}
    PROVE  LET d == Dropped(q, a, b)
           IN  /\ d \in Seq(T) /\ IsInjective(d) /\ Range(d) = Range(q)
               /\ Without(d, a) = Without(q, a)
               /\ \E i \in DOMAIN d : d[i] = a /\ i < Len(d) /\ d[i + 1] = b
<1> DEFINE r == Without(q, a)
           p == Place(r, b)
           d == InsertAt(r, p, a)
<1>1. r \in Seq(T) /\ IsInjective(r) /\ Range(r) = Range(q) \ {a}
  BY TakenOut
<1>2. a \in T
  BY ElementOfSeq, LenProperties DEF Range
<1> HIDE DEF r
<1>3. p \in 1 .. Len(r) /\ r[p] = b
  BY <1>1, PlaceOf
<1> HIDE DEF p
<1>4. Len(r) \in Nat /\ p \in 1 .. Len(r) + 1 /\ p <= Len(r) /\ a \notin Range(r)
  BY <1>1, <1>3, LenProperties
<1>5. /\ d \in Seq(T) /\ IsInjective(d) /\ Range(d) = Range(r) \cup {a}
      /\ d[p] = a /\ p \in 1 .. Len(d) /\ Len(d) = Len(r) + 1
      /\ p <= Len(r) => d[p + 1] = r[p]
      /\ Without(d, a) = r
  BY <1>1, <1>2, <1>4, PutBack
<1> HIDE DEF d
<1>6. p \in DOMAIN d /\ p < Len(d)
  BY <1>4, <1>5, LenProperties
<1>7. Dropped(q, a, b) = d
  BY DEF Dropped, d, p, r
<1>8. QED
  BY <1>1, <1>3, <1>4, <1>5, <1>6, <1>7 DEF r

LEMMA FrontedList ==
    ASSUME NEW T, NEW q \in Seq(T), IsInjective(q), NEW a \in Range(q)
    PROVE  LET d == <<a>> \o Without(q, a)
           IN  /\ d \in Seq(T) /\ IsInjective(d) /\ Range(d) = Range(q)
               /\ Without(d, a) = Without(q, a)
               /\ 1 \in DOMAIN d /\ d[1] = a
<1> DEFINE r == Without(q, a)
           d == InsertAt(r, 1, a)
<1>1. r \in Seq(T) /\ IsInjective(r) /\ Range(r) = Range(q) \ {a}
  BY TakenOut
<1>2. a \in T
  BY ElementOfSeq, LenProperties DEF Range
<1> HIDE DEF r
<1>3. Len(r) \in Nat /\ 1 \in 1 .. Len(r) + 1 /\ a \notin Range(r)
  BY <1>1, LenProperties
<1>4. /\ d \in Seq(T) /\ IsInjective(d) /\ Range(d) = Range(r) \cup {a}
      /\ d[1] = a /\ 1 \in 1 .. Len(d)
      /\ Without(d, a) = r
  BY <1>1, <1>2, <1>3, PutBack
<1>5. d = <<a>> \o r
  <2>1. SubSeq(r, 1, 1 - 1) = <<>> /\ SubSeq(r, 1, Len(r)) = r
    BY <1>1, SubSeqEmpty, SubSeqFull
  <2>2. <<>> \o <<a>> = <<a>>
    BY <1>2, ConcatEmptySeq
  <2>3. QED
    BY <2>1, <2>2 DEF InsertAt
<1> HIDE DEF d
<1>6. 1 \in DOMAIN d
  BY <1>4, LenProperties
<1>7. QED
  BY <1>1, <1>4, <1>5, <1>6 DEF r

-----------------------------------------------------------------------------
(* The inductive invariant.                                                *)

(* A config that can be kept: its active preset is one of its presets.     *)
Whole == {c \in Configs : c.active # NoPreset => c.active \in DOMAIN c.presets}
StoredConfigs == Whole \cup {NoConfig}

Entry == [id : Views, cfg : StoredConfigs]
Session == [cache : Seq(Entry), fetch : {"idle", "asked", "answered"}, answer : Seq(Entry),
            chosen : Views \cup {NoView}, sent : Nat, shown : Views \cup {NoView},
            local : Whole, timer : BOOLEAN, touched : BOOLEAN, clean : BOOLEAN]

Save == [op : {"save"}, s : Sessions, view : Views, cfg : Whole, nth : Nat]
Add == [op : {"add"}, s : Sessions, view : Views \cup {NoView}, cfg : StoredConfigs]
Change == [op : {"delete", "rename"}, s : Sessions, view : Views]
Reorder == [op : {"order"}, s : Sessions, ids : Seq(Views), left : SUBSET Nat,
            waits : BOOLEAN, good : BOOLEAN, alone : BOOLEAN,
            was : Seq(Views), a : Views, b : Views \cup {NoView}]

Typed ==
    /\ live \subseteq minted /\ minted \subseteq Views
    /\ order \in [Views -> Nat] /\ ops \in 0 .. MaxOps
    /\ stored \in [Views -> StoredConfigs]
    /\ lineage \in [Views -> SUBSET Views]
    /\ sess \in [Sessions -> Session]
    /\ net \subseteq Save \cup Add \cup Change \cup Reorder

(* Settings are at home in v: every change was made in v, or in a view it  *)
(* was copied from.                                                        *)
AtHome(v, c) == v \in minted /\ c.from \subseteq lineage[v]

ListAtHome(q) ==
    /\ \A i \in DOMAIN q : AtHome(q[i].id, Hydrated(q[i].cfg))
    /\ IsInjective(Ids(q))

SessionInv(s) ==
    LET S == sess[s] IN
    /\ ListAtHome(S.cache) /\ ListAtHome(S.answer)
    /\ S.shown = Active(S.cache, S.chosen)
    /\ S.timer => S.touched
    /\ IF S.shown = NoView THEN ~S.touched ELSE AtHome(S.shown, S.local)

(* The PATCHes of a drag answered so far have put their views in place.    *)
ReorderInv(m) ==
    /\ IsInjective(m.was) /\ Range(m.was) \subseteq minted /\ m.a \in Range(m.was)
    /\ IF m.b = NoView THEN m.ids = <<m.a>> \o Without(m.was, m.a)
       ELSE m.b \in Range(m.was) \ {m.a} /\ m.ids = Dropped(m.was, m.a, m.b)
    /\ m.left \subseteq DOMAIN m.ids
    /\ (m.alone /\ m.good) => \A i \in DOMAIN m.ids \ m.left : order[m.ids[i]] = i - 1

MessageInv(m) ==
    /\ m.op = "save" => AtHome(m.view, m.cfg)
    /\ m.op = "add" => IF m.view = NoView THEN m.cfg = NoConfig
                    ELSE AtHome(m.view, Hydrated(m.cfg))
    /\ m.op = "order" => ReorderInv(m)

ViewsAtHome ==
    /\ IsFiniteSet(live)
    /\ \A v \in minted : v \in lineage[v] /\ AtHome(v, Hydrated(stored[v]))

OrdersBounded == \E n \in Nat : \A v \in Views : order[v] <= n

SavesNumbered ==
    /\ \E n \in Nat : \A m \in net : m.op = "save" => m.nth <= n
    /\ \A m, k \in net : (m.op = "save" /\ k.op = "save" /\ m.s = k.s /\ m.nth = k.nth) => m = k

(* The last save a session sent, of the view it shows, still under way.    *)
Saving(s, m) ==
    m.op = "save" /\ m.s = s /\ m.view = sess[s].shown /\ m.nth = sess[s].sent

SavedOrSaving(s) ==
    LET S == sess[s] IN
    (S.touched /\ S.clean /\ ~S.timer /\ S.shown \in live) =>
        \/ \E m \in net : Saving(s, m) /\ m.cfg = S.local
        \/ stored[S.shown] = S.local /\ \A m \in net : ~Saving(s, m)

ViewInv ==
    /\ Typed
    /\ \A s \in Sessions : SessionInv(s)
    /\ \A m \in net : MessageInv(m)
    /\ ViewsAtHome
    /\ OrdersBounded
    /\ SavesNumbered
    /\ \A s \in Sessions : SavedOrSaving(s)

-----------------------------------------------------------------------------
(* Settings.                                                               *)

PresetMaps == UNION {[P -> Looks] : P \in SUBSET Presets}

LEMMA PresetMap ==
    ASSUME NEW f \in PresetMaps
    PROVE  f \in [DOMAIN f -> Looks] /\ DOMAIN f \subseteq Presets
  BY DEF PresetMaps

LEMMA ConfigFields ==
    ASSUME NEW c \in Whole
    PROVE  /\ c.look \in Looks /\ c.rest \in 0 .. MaxOps /\ c.from \subseteq Views
           /\ c.presets \in PresetMaps /\ DOMAIN c.presets \subseteq Presets
           /\ c.active \in Presets \cup {NoPreset}
           /\ c.active # NoPreset => c.active \in DOMAIN c.presets
           /\ Baseline(c) \in Looks
<1>1. /\ c.look \in Looks /\ c.rest \in 0 .. MaxOps /\ c.from \subseteq Views
      /\ c.presets \in PresetMaps
      /\ c.active \in Presets \cup {NoPreset}
      /\ c.active # NoPreset => c.active \in DOMAIN c.presets
  BY DEF Whole, Configs, PresetMaps
<1>2. c.presets \in [DOMAIN c.presets -> Looks] /\ DOMAIN c.presets \subseteq Presets
  BY <1>1, PresetMap
<1>3. Baseline(c) \in Looks
  BY <1>2, PlainAssumption DEF Baseline
<1>4. QED
  BY <1>1, <1>2, <1>3

LEMMA DefaultWhole == Default \in Whole /\ Default.from = {}
<1>1. <<>> \in PresetMaps
  <2>1. <<>> \in [{} -> Looks]
    OBVIOUS
  <2>2. QED
    BY <2>1 DEF PresetMaps
<1>2. 0 \in 0 .. MaxOps
  BY OpsAssumption
<1>3. QED
  BY <1>1, <1>2, PlainAssumption DEF Default, Whole, Configs, PresetMaps

LEMMA HydratedWhole ==
    ASSUME NEW c \in StoredConfigs
    PROVE  /\ Hydrated(c) \in Whole
           /\ c \in Whole => Hydrated(c).from \subseteq c.from
  BY DefaultWhole DEF Hydrated, StoredConfigs

LEMMA LookChanged ==
    ASSUME NEW c \in Whole, NEW look \in Looks
    PROVE  [c EXCEPT !.look = look] \in Whole /\ [c EXCEPT !.look = look].from = c.from
  BY DEF Whole, Configs

LEMMA RestChanged ==
    ASSUME NEW c \in Whole, NEW n \in 0 .. MaxOps
    PROVE  [c EXCEPT !.rest = n] \in Whole /\ [c EXCEPT !.rest = n].from = c.from
  BY DEF Whole, Configs

LEMMA ActiveChanged ==
    ASSUME NEW c \in Whole, NEW p \in DOMAIN c.presets \cup {NoPreset}
    PROVE  [c EXCEPT !.active = p] \in Whole /\ [c EXCEPT !.active = p].from = c.from
<1>1. p \in Presets \cup {NoPreset}
  BY ConfigFields
<1>2. QED
  BY <1>1 DEF Whole, Configs

LEMMA FromChanged ==
    ASSUME NEW c \in Whole, NEW v \in Views
    PROVE  /\ [c EXCEPT !.from = @ \cup {v}] \in Whole
           /\ [c EXCEPT !.from = @ \cup {v}].from = c.from \cup {v}
  BY DEF Whole, Configs

LEMMA PresetAdded ==
    ASSUME NEW c \in Whole, NEW p \in Presets, NEW look \in Looks
    PROVE  /\ WithPreset(c, p, look) \in Whole
           /\ WithPreset(c, p, look).from = c.from
           /\ DOMAIN WithPreset(c, p, look).presets = DOMAIN c.presets \cup {p}
<1> DEFINE f == [q \in DOMAIN c.presets \cup {p} |-> IF q = p THEN look ELSE c.presets[q]]
<1>1. c.presets \in [DOMAIN c.presets -> Looks] /\ DOMAIN c.presets \subseteq Presets
  BY ConfigFields, PresetMap
<1>2. f \in [DOMAIN c.presets \cup {p} -> Looks] /\ DOMAIN f = DOMAIN c.presets \cup {p}
  BY <1>1
<1>3. f \in PresetMaps
  BY <1>1, <1>2 DEF PresetMaps
<1> HIDE DEF f
<1>4. [c EXCEPT !.presets = f] \in Whole /\ [c EXCEPT !.presets = f].from = c.from
      /\ [c EXCEPT !.presets = f].presets = f
  BY <1>2, <1>3 DEF Whole, Configs, PresetMaps
<1>5. WithPreset(c, p, look) = [c EXCEPT !.presets = f]
  BY DEF WithPreset, f
<1>6. QED
  BY <1>2, <1>4, <1>5

LEMMA PresetDeleted ==
    ASSUME NEW c \in Whole, NEW p \in DOMAIN c.presets
    PROVE  WithoutPreset(c, p) \in Whole /\ WithoutPreset(c, p).from = c.from
<1> DEFINE f == [q \in DOMAIN c.presets \ {p} |-> c.presets[q]]
           n == IF c.active = p THEN NoPreset ELSE c.active
<1>1. c.presets \in [DOMAIN c.presets -> Looks] /\ DOMAIN c.presets \subseteq Presets
  BY ConfigFields, PresetMap
<1>2. f \in [DOMAIN c.presets \ {p} -> Looks] /\ DOMAIN f = DOMAIN c.presets \ {p}
  BY <1>1
<1>3. f \in PresetMaps
  BY <1>1, <1>2 DEF PresetMaps
<1>4. n \in Presets \cup {NoPreset} /\ (n # NoPreset => n \in DOMAIN f)
  BY <1>2, ConfigFields
<1> HIDE DEF f, n
<1>5. /\ [c EXCEPT !.presets = f, !.active = n] \in Whole
      /\ [c EXCEPT !.presets = f, !.active = n].from = c.from
  BY <1>3, <1>4 DEF Whole, Configs, PresetMaps
<1>6. WithoutPreset(c, p) = [c EXCEPT !.presets = f, !.active = n]
  BY DEF WithoutPreset, f, n
<1>7. QED
  BY <1>5, <1>6

-----------------------------------------------------------------------------
(* Sessions.                                                               *)

LEMMA EntryIds ==
    ASSUME NEW q \in Seq(Entry), ListAtHome(q)
    PROVE  /\ Ids(q) \in Seq(Views) /\ IsInjective(Ids(q)) /\ Range(Ids(q)) \subseteq minted
           /\ DOMAIN Ids(q) = DOMAIN q /\ \A i \in DOMAIN q : Ids(q)[i] = q[i].id
           /\ DOMAIN q = 1 .. Len(q)
<1>1. DOMAIN q = 1 .. Len(q) /\ Len(q) \in Nat /\ \A i \in 1 .. Len(q) : q[i] \in Entry
  BY LenProperties, ElementOfSeq
<1>2. Ids(q) = [i \in 1 .. Len(q) |-> q[i].id]
  BY <1>1 DEF Ids
<1>3. \A i \in 1 .. Len(q) : q[i].id \in Views
  BY <1>1 DEF Entry
<1>4. Ids(q) \in Seq(Views)
  BY <1>1, <1>2, <1>3, IsASeq
<1>5. Range(Ids(q)) \subseteq minted
  BY <1>1, <1>2 DEF Range, ListAtHome, AtHome
<1>6. QED
  BY <1>1, <1>2, <1>4, <1>5 DEF ListAtHome

(* The view shown is in the list, and its settings there are at home.      *)
LEMMA ActiveInList ==
    ASSUME NEW q \in Seq(Entry), ListAtHome(q), NEW chosen, Active(q, chosen) # NoView
    PROVE  LET v == Active(q, chosen)
           IN  /\ v \in Views /\ ConfigOf(q, v) \in StoredConfigs
               /\ AtHome(v, Hydrated(ConfigOf(q, v)))
<1> DEFINE v == Active(q, chosen)
<1>1. DOMAIN q = 1 .. Len(q) /\ Len(q) \in Nat /\ \A i \in 1 .. Len(q) : q[i] \in Entry
  BY LenProperties, ElementOfSeq
<1>2. q # <<>>
  BY DEF Active
<1>3. 1 \in DOMAIN q
  BY <1>1, <1>2, EmptySeq
<1>4. \E i \in DOMAIN q : q[i].id = v
  BY <1>2, <1>3 DEF Active
<1> HIDE DEF v
<1>5. PICK i \in DOMAIN q : q[i].id = v /\ ConfigOf(q, v) = q[i].cfg
  BY <1>4 DEF ConfigOf
<1>6. q[i] \in Entry /\ AtHome(v, Hydrated(q[i].cfg))
  BY <1>1, <1>5 DEF ListAtHome
<1>7. QED
  BY <1>5, <1>6 DEF Entry, v

LEMMA ActiveType ==
    ASSUME NEW q \in Seq(Entry), ListAtHome(q), NEW chosen
    PROVE  Active(q, chosen) \in Views \cup {NoView}
  BY ActiveInList

(* What a session keeps, wherever it comes from.                           *)
Sound(S) ==
    /\ ListAtHome(S.cache) /\ ListAtHome(S.answer)
    /\ S.timer => S.touched
    /\ IF S.shown = NoView THEN ~S.touched ELSE AtHome(S.shown, S.local)

LEMMA SoundSession ==
    ASSUME Typed, NEW s \in Sessions, SessionInv(s)
    PROVE  /\ sess[s] \in Session /\ Sound(sess[s])
           /\ sess[s].shown = Active(sess[s].cache, sess[s].chosen)
  BY DEF Typed, SessionInv, Sound

(* Nothing of an unsaved change is lost, or there is none.                 *)
SameChanges(R, S) ==
    \/ ~R.touched
    \/ R.timer
    \/ /\ R.shown = S.shown /\ R.local = S.local /\ R.timer = S.timer
       /\ R.touched = S.touched /\ R.clean = S.clean /\ R.sent = S.sent

LEMMA RenderedSession ==
    ASSUME NEW S \in Session, Sound(S)
    PROVE  LET R == Rendered(S)
           IN  /\ R \in Session /\ Sound(R) /\ R.shown = Active(R.cache, R.chosen)
               /\ R.sent = S.sent /\ SameChanges(R, S)
<1> DEFINE v == Active(S.cache, S.chosen)
           c == Hydrated(IF v = NoView THEN NoConfig ELSE ConfigOf(S.cache, v))
<1>1. S.cache \in Seq(Entry) /\ ListAtHome(S.cache)
  BY DEF Session, Sound
<1>2. v \in Views \cup {NoView}
  BY <1>1, ActiveType
<1>3. c \in Whole /\ (v # NoView => AtHome(v, c))
  <2>1. CASE v = NoView
    BY <2>1, HydratedWhole DEF StoredConfigs
  <2>2. CASE v # NoView
    <3>1. ConfigOf(S.cache, v) \in StoredConfigs /\ AtHome(v, Hydrated(ConfigOf(S.cache, v)))
      BY <1>1, <2>2, ActiveInList
    <3>2. QED
      BY <2>2, <3>1, HydratedWhole
  <2>3. QED
    BY <2>1, <2>2
<1>4. CASE v = S.shown
  BY <1>4 DEF Rendered, SameChanges
<1>5. CASE v # S.shown
  <2> HIDE DEF c
  <2>1. Rendered(S) = [S EXCEPT !.shown = v, !.local = c,
                                !.timer = FALSE, !.touched = FALSE, !.clean = TRUE]
    BY <1>5 DEF Rendered, c
  <2> HIDE DEF v
  <2> DEFINE R == [S EXCEPT !.shown = v, !.local = c,
                            !.timer = FALSE, !.touched = FALSE, !.clean = TRUE]
  <2>2. /\ R \in Session /\ R.shown = v /\ R.local = c /\ ~R.timer /\ ~R.touched
        /\ R.cache = S.cache /\ R.answer = S.answer /\ R.chosen = S.chosen /\ R.sent = S.sent
    BY <1>2, <1>3 DEF Session
  <2> HIDE DEF R
  <2>3. Sound(R)
    BY <1>3, <2>2 DEF Sound
  <2>4. QED
    BY <2>1, <2>2, <2>3 DEF SameChanges, v, R
<1>6. QED
  BY <1>4, <1>5

LEMMA ChangedSession ==
    ASSUME Typed, ViewsAtHome, NEW S \in Session, Sound(S), S.shown = Active(S.cache, S.chosen),
           S.shown # NoView, NEW c \in Whole, c.from = S.local.from
    PROVE  LET R == Changed(S, c)
           IN  /\ R \in Session /\ Sound(R) /\ R.shown = Active(R.cache, R.chosen)
               /\ R.timer
<1> DEFINE n == [c EXCEPT !.from = @ \cup {S.shown}]
           R == [S EXCEPT !.local = n, !.timer = TRUE, !.touched = TRUE]
<1>1. S.shown \in Views /\ AtHome(S.shown, S.local)
  BY DEF Session, Sound
<1>2. n \in Whole /\ n.from = c.from \cup {S.shown}
  BY <1>1, FromChanged
<1> HIDE DEF n
<1>3. AtHome(S.shown, n)
  BY <1>1, <1>2 DEF AtHome, ViewsAtHome
<1>4. /\ R \in Session /\ R.shown = S.shown /\ R.local = n /\ R.timer /\ R.touched
      /\ R.cache = S.cache /\ R.answer = S.answer /\ R.chosen = S.chosen
  BY <1>2 DEF Session
<1> HIDE DEF R
<1>5. Sound(R)
  BY <1>3, <1>4 DEF Sound
<1>6. Changed(S, c) = R
  BY DEF Changed, R, n
<1>7. QED
  BY <1>4, <1>5, <1>6

LEMMA InvalidatedSession ==
    ASSUME NEW S \in Session, Sound(S)
    PROVE  LET R == Invalidated(S)
           IN  /\ R \in Session /\ Sound(R)
               /\ R.cache = S.cache /\ R.chosen = S.chosen /\ R.shown = S.shown
               /\ R.sent = S.sent /\ SameChanges(R, S)
<1> DEFINE R == [S EXCEPT !.fetch = "asked", !.answer = <<>>]
<1>1. <<>> \in Seq(Entry) /\ ListAtHome(<<>>)
  BY DEF ListAtHome, Ids, IsInjective
<1>2. /\ R \in Session /\ R.shown = S.shown /\ R.local = S.local /\ R.timer = S.timer
      /\ R.touched = S.touched /\ R.clean = S.clean /\ R.sent = S.sent
      /\ R.cache = S.cache /\ R.answer = <<>> /\ R.chosen = S.chosen
  BY <1>1 DEF Session
<1> HIDE DEF R
<1>3. QED
  BY <1>1, <1>2 DEF Sound, SameChanges, Invalidated, R

-----------------------------------------------------------------------------
(* What every step keeps.                                                  *)

(* Views come, and what the old ones descend from is settled.              *)
Grows == minted \subseteq minted' /\ \A v \in minted : lineage'[v] = lineage[v]

LEMMA AtHomeKept ==
    ASSUME Grows
    PROVE  /\ \A v, c : AtHome(v, c) => AtHome(v, c)'
           /\ \A q : ListAtHome(q) => ListAtHome(q)'
           /\ \A S : Sound(S) => Sound(S)'
<1>1. \A v, c : AtHome(v, c) => AtHome(v, c)'
  BY DEF Grows, AtHome
<1>2. \A q : ListAtHome(q) => ListAtHome(q)'
  BY <1>1 DEF ListAtHome
<1>3. ASSUME NEW S, Sound(S) PROVE Sound(S)'
  BY <1>1, <1>2, <1>3 DEF Sound
<1>4. QED
  BY <1>1, <1>2, <1>3

LEMMA SessionInvNext ==
    ASSUME Grows, NEW s \in Sessions, NEW S, sess'[s] = S, Sound(S),
           S.shown = Active(S.cache, S.chosen)
    PROVE  SessionInv(s)'
<1>1. Sound(S)'
  BY AtHomeKept
<1>2. QED
  BY <1>1 DEF SessionInv, Sound

(* The list a drag sends has the views of the list it was made in.         *)
LEMMA ReorderList ==
    ASSUME NEW m \in Reorder, ReorderInv(m)
    PROVE  /\ m.ids \in Seq(Views) /\ IsInjective(m.ids) /\ Range(m.ids) = Range(m.was)
           /\ Range(m.ids) \subseteq minted
           /\ DOMAIN m.ids = 1 .. Len(m.ids) /\ Len(m.ids) \in Nat
           /\ \A i \in DOMAIN m.ids : m.ids[i] \in minted /\ m.ids[i] \in Views
           /\ Without(m.ids, m.a) = Without(m.was, m.a)
           /\ \E i \in DOMAIN m.ids : /\ m.ids[i] = m.a
                                      /\ IF m.b = NoView THEN i = 1
                                         ELSE i < Len(m.ids) /\ m.ids[i + 1] = m.b
<1>1. m.was \in Seq(Views) /\ m.ids \in Seq(Views)
  BY DEF Reorder
<1>2. IsInjective(m.was) /\ m.a \in Range(m.was) /\ Range(m.was) \subseteq minted
  BY DEF ReorderInv
<1>3. CASE m.b = NoView
  <2>1. m.ids = <<m.a>> \o Without(m.was, m.a)
    BY <1>3 DEF ReorderInv
  <2>2. /\ IsInjective(m.ids) /\ Range(m.ids) = Range(m.was)
        /\ Without(m.ids, m.a) = Without(m.was, m.a)
        /\ 1 \in DOMAIN m.ids /\ m.ids[1] = m.a
    BY <1>1, <1>2, <2>1, FrontedList
  <2>3. QED
    BY <1>1, <1>2, <1>3, <2>2, LenProperties, ElementOfSeq DEF Range
<1>4. CASE m.b # NoView
  <2>1. m.ids = Dropped(m.was, m.a, m.b) /\ m.b \in Range(m.was) \ {m.a}
    BY <1>4 DEF ReorderInv
  <2>2. /\ IsInjective(m.ids) /\ Range(m.ids) = Range(m.was)
        /\ Without(m.ids, m.a) = Without(m.was, m.a)
        /\ \E i \in DOMAIN m.ids : m.ids[i] = m.a /\ i < Len(m.ids) /\ m.ids[i + 1] = m.b
    <3> DEFINE q == m.was  a == m.a  b == m.b  d == Dropped(q, a, b)
    <3>1. q \in Seq(Views) /\ IsInjective(q) /\ a \in Range(q) /\ b \in Range(q) \ {a}
      BY <1>1, <1>2, <2>1
    <3> HIDE DEF q, a, b
    <3>2. /\ IsInjective(d) /\ Range(d) = Range(q) /\ Without(d, a) = Without(q, a)
          /\ \E i \in DOMAIN d : d[i] = a /\ i < Len(d) /\ d[i + 1] = b
      BY <3>1, DroppedList
    <3>3. m.ids = d
      BY <2>1 DEF q, a, b
    <3>4. QED
      BY <3>2, <3>3 DEF q, a, b
  <2>3. QED
    BY <1>1, <1>2, <1>4, <2>2, LenProperties, ElementOfSeq DEF Range
<1>5. QED
  BY <1>3, <1>4

LEMMA MessageTypes ==
    ASSUME Typed, NEW m \in net
    PROVE  /\ m.op = "save" => m \in Save
           /\ m.op = "add" => m \in Add
           /\ m.op \in {"delete", "rename"} => m \in Change
           /\ m.op = "order" => m \in Reorder
           /\ m.op \in {"save", "add", "delete", "rename", "order"} /\ m.s \in Sessions
  BY DEF Typed, Save, Add, Change, Reorder

LEMMA MessageKept ==
    ASSUME Grows, NEW m, MessageInv(m),
           (m.op = "order" /\ m.alone /\ m.good)
              => \A i \in DOMAIN m.ids \ m.left : order'[m.ids[i]] = order[m.ids[i]]
    PROVE  MessageInv(m)'
<1>1. /\ m.op = "save" => AtHome(m.view, m.cfg)'
      /\ m.op = "add" => IF m.view = NoView THEN m.cfg = NoConfig
                         ELSE AtHome(m.view, Hydrated(m.cfg))'
  BY AtHomeKept DEF MessageInv
<1>2. m.op = "order" => ReorderInv(m)'
  <2>1. SUFFICES ASSUME m.op = "order" PROVE ReorderInv(m)'
    OBVIOUS
  <2>2. ReorderInv(m)
    BY <2>1 DEF MessageInv
  <2>3. Range(m.was) \subseteq minted'
    BY <2>2 DEF ReorderInv, Grows
  <2>4. (m.alone /\ m.good) => \A i \in DOMAIN m.ids \ m.left : order'[m.ids[i]] = i - 1
    BY <2>1, <2>2 DEF ReorderInv
  <2>5. QED
    BY <2>2, <2>3, <2>4 DEF ReorderInv
<1>3. QED
  BY <1>1, <1>2 DEF MessageInv

(* A step that stores no settings of an existing view and leaves the saves *)
(* under way alone.                                                        *)
LEMMA StepInv ==
    ASSUME ViewInv, Typed', Grows, OrdersBounded', IsFiniteSet(live'),
           live' \cap minted \subseteq live,
           \A v \in minted : stored'[v] = stored[v],
           \A v \in minted' \ minted : v \in lineage'[v] /\ AtHome(v, Hydrated(stored[v]))',
           \A m \in net \cup net' : m.op = "save" => (m \in net <=> m \in net'),
           \A m \in net' : MessageInv(m)',
           \A s \in Sessions : SessionInv(s)' /\ SameChanges(sess'[s], sess[s])
    PROVE  ViewInv'
<1> USE DEF ViewInv
<1>1. ViewsAtHome'
  <2>1. ASSUME NEW v \in minted PROVE v \in lineage'[v] /\ AtHome(v, Hydrated(stored[v]))'
    <3>1. v \in lineage[v] /\ AtHome(v, Hydrated(stored[v]))
      BY DEF ViewsAtHome
    <3>2. QED
      BY <3>1 DEF Grows, AtHome
  <2>2. QED
    BY <2>1 DEF ViewsAtHome
<1>2. SavesNumbered'
  <2>1. PICK n \in Nat : \A m \in net : m.op = "save" => m.nth <= n
    BY DEF SavesNumbered
  <2>2. \A m \in net' : m.op = "save" => m.nth <= n
    BY <2>1
  <2>3. \A m, k \in net' : (m.op = "save" /\ k.op = "save" /\ m.s = k.s /\ m.nth = k.nth) => m = k
    BY DEF SavesNumbered
  <2>4. QED
    BY <2>2, <2>3 DEF SavesNumbered
<1>3. ASSUME NEW s \in Sessions PROVE SavedOrSaving(s)'
  <2>1. CASE ~sess'[s].touched \/ sess'[s].timer
    BY <2>1 DEF SavedOrSaving
  <2>2. CASE /\ sess'[s].shown = sess[s].shown /\ sess'[s].local = sess[s].local
             /\ sess'[s].timer = sess[s].timer /\ sess'[s].touched = sess[s].touched
             /\ sess'[s].clean = sess[s].clean /\ sess'[s].sent = sess[s].sent
    <3> DEFINE S == sess[s]
    <3> SUFFICES ASSUME S.touched, S.clean, ~S.timer, S.shown \in live'
                 PROVE  \/ \E m \in net' : Saving(s, m)' /\ m.cfg = S.local
                        \/ stored'[S.shown] = S.local /\ \A m \in net' : ~Saving(s, m)'
      BY <2>2 DEF SavedOrSaving
    <3>1. S.shown \in minted
      BY DEF SessionInv, AtHome
    <3>2. S.shown \in live /\ stored'[S.shown] = stored[S.shown]
      BY <3>1
    <3>3. \A m : Saving(s, m)' <=> Saving(s, m)
      BY <2>2 DEF Saving
    <3>4. \/ \E m \in net : Saving(s, m) /\ m.cfg = S.local
          \/ stored[S.shown] = S.local /\ \A m \in net : ~Saving(s, m)
      BY <3>2 DEF SavedOrSaving
    <3>5. \A m \in net \cup net' : Saving(s, m) => (m \in net <=> m \in net')
      BY DEF Saving
    <3>6. QED
      BY <3>2, <3>3, <3>4, <3>5
  <2>3. QED
    BY <2>1, <2>2 DEF SameChanges
<1>4. QED
  BY <1>1, <1>2, <1>3

(* A step on the page of session s: it may send something that is no save. *)
LEMMA PageStep ==
    ASSUME ViewInv, NEW s \in Sessions, NEW R \in Session,
           sess' = [sess EXCEPT ![s] = R],
           UNCHANGED <<live, minted, order, stored, lineage>>, ops' \in 0 .. MaxOps,
           Sound(R), R.shown = Active(R.cache, R.chosen), SameChanges(R, sess[s]),
           net \subseteq net',
           \A m \in net' \ net : m \in Add \cup Change \cup Reorder /\ MessageInv(m)
    PROVE  ViewInv'
<1> USE DEF ViewInv
<1>1. Grows /\ live' = live /\ minted' = minted
  BY DEF Grows
<1>2. sess' \in [Sessions -> Session] /\ sess'[s] = R /\ \A t \in Sessions \ {s} : sess'[t] = sess[t]
  BY DEF Typed
<1>3. Typed'
  BY <1>2 DEF Typed
<1>4. ASSUME NEW t \in Sessions PROVE SessionInv(t)' /\ SameChanges(sess'[t], sess[t])
  <2>1. CASE t = s
    BY <1>1, <1>2, <2>1, SessionInvNext
  <2>2. CASE t # s
    <3>1. sess'[t] = sess[t]
      BY <1>2, <2>2
    <3>2. Sound(sess[t]) /\ sess[t].shown = Active(sess[t].cache, sess[t].chosen)
      BY SoundSession
    <3>3. QED
      BY <1>1, <3>1, <3>2, SessionInvNext DEF SameChanges
  <2>3. QED
    BY <2>1, <2>2
<1>5. \A m \in net' : MessageInv(m)
  OBVIOUS
<1>6. \A m \in net' : MessageInv(m)'
  BY <1>1, <1>5, MessageKept
<1>7. \A m \in net' \ net : m.op # "save"
  BY DEF Add, Change, Reorder
<1>8. OrdersBounded' /\ IsFiniteSet(live')
  BY <1>1 DEF OrdersBounded, ViewsAtHome
<1>9. QED
  BY <1>1, <1>3, <1>4, <1>6, <1>7, <1>8, StepInv

-----------------------------------------------------------------------------
(* The toolbar and the sidebar.                                            *)

LEMMA ActsType ==
    ASSUME Typed, NEW s \in Sessions, Acts(s)
    PROVE  /\ ops' \in 0 .. MaxOps /\ 1 + MaxOps - ops \in 0 .. MaxOps
           /\ sess[s].shown # NoView
<1>1. ops \in 0 .. MaxOps /\ ops > 0 /\ ops' = ops - 1 /\ MaxOps \in Nat
  BY OpsAssumption DEF Typed, Acts
<1>2. ops' \in 0 .. MaxOps /\ 1 + MaxOps - ops \in 0 .. MaxOps
  BY <1>1
<1>3. QED
  BY <1>2 DEF Acts

LEMMA ChangesInv ==
    ASSUME ViewInv, NEW s \in Sessions, NEW c \in Whole, c.from = sess[s].local.from,
           Acts(s), Changes(s, c)
    PROVE  ViewInv'
<1> USE DEF ViewInv
<1> DEFINE R == Changed(sess[s], c)
<1>1. /\ sess[s] \in Session /\ Sound(sess[s])
      /\ sess[s].shown = Active(sess[s].cache, sess[s].chosen)
  BY SoundSession
<1>2. sess[s].shown # NoView /\ ops' \in 0 .. MaxOps
  BY ActsType
<1>3. R \in Session /\ Sound(R) /\ R.shown = Active(R.cache, R.chosen) /\ R.timer
  BY <1>1, <1>2, ChangedSession
<1>4. sess' = [sess EXCEPT ![s] = R]
  BY DEF Changes
<1> HIDE DEF R
<1>5. SameChanges(R, sess[s])
  BY <1>3 DEF SameChanges
<1>6. UNCHANGED <<live, minted, order, stored, lineage>> /\ net' = net
  BY DEF Changes
<1>7. QED
  BY <1>2, <1>3, <1>4, <1>5, <1>6, PageStep

LEMMA ToolbarInv ==
    ASSUME ViewInv, NEW s \in Sessions,
           Toolbar(s) \/ EditRest(s) \/ PresetsPage(s)
    PROVE  ViewInv'
<1> DEFINE c == sess[s].local
<1>1. c \in Whole
  BY DEF ViewInv, Typed, Session
<1>2. /\ c.presets \in PresetMaps /\ DOMAIN c.presets \subseteq Presets /\ c.look \in Looks
      /\ c.active \in Presets \cup {NoPreset} /\ Baseline(c) \in Looks
      /\ c.active # NoPreset => c.active \in DOMAIN c.presets
  BY <1>1, ConfigFields
<1>3. CASE EditLook(s)
  <2>1. PICK look \in Looks : Acts(s) /\ Changes(s, [c EXCEPT !.look = look])
    BY <1>3 DEF EditLook
  <2> HIDE DEF c
  <2>2. [c EXCEPT !.look = look] \in Whole /\ [c EXCEPT !.look = look].from = c.from
    BY <1>1, LookChanged
  <2>3. QED
    BY <2>1, <2>2, ChangesInv DEF c
<1>4. CASE ApplyPreset(s)
  <2>1. PICK p \in DOMAIN c.presets \cup {NoPreset} :
          LET a == [c EXCEPT !.active = p] IN
          Acts(s) /\ Changes(s, [a EXCEPT !.look = Baseline(a)])
    BY <1>4 DEF ApplyPreset
  <2> HIDE DEF c
  <2> DEFINE a == [c EXCEPT !.active = p]
             n == [a EXCEPT !.look = Baseline(a)]
  <2>2. a \in Whole /\ a.from = c.from
    BY <1>1, ActiveChanged
  <2>3. Acts(s) /\ Changes(s, n)
    BY <2>1
  <2> HIDE DEF a
  <2>4. Baseline(a) \in Looks
    BY <2>2, ConfigFields
  <2>5. n \in Whole /\ n.from = c.from
    BY <2>2, <2>4, LookChanged
  <2> HIDE DEF n
  <2>6. QED
    BY <2>3, <2>5, ChangesInv DEF c
<1>5. CASE SavePreset(s)
  <2>1. c.active # NoPreset /\ Acts(s) /\ Changes(s, WithPreset(c, c.active, c.look))
    BY <1>5 DEF SavePreset
  <2> HIDE DEF c
  <2>2. c.active \in Presets
    BY <1>2, <2>1
  <2>3. /\ WithPreset(c, c.active, c.look) \in Whole
        /\ WithPreset(c, c.active, c.look).from = c.from
    BY <1>1, <1>2, <2>2, PresetAdded
  <2>4. QED
    BY <2>1, <2>3, ChangesInv DEF c
<1>6. CASE CreatePreset(s)
  <2>1. PICK p \in Presets :
          Acts(s) /\ Changes(s, [WithPreset(c, p, c.look) EXCEPT !.active = p])
    BY <1>6 DEF CreatePreset
  <2> HIDE DEF c
  <2> DEFINE a == WithPreset(c, p, c.look)
             n == [a EXCEPT !.active = p]
  <2>2. a \in Whole /\ a.from = c.from /\ p \in DOMAIN a.presets
    BY <1>1, <1>2, PresetAdded
  <2>3. Acts(s) /\ Changes(s, n)
    BY <2>1
  <2> HIDE DEF a
  <2>4. n \in Whole /\ n.from = c.from
    BY <2>2, ActiveChanged
  <2> HIDE DEF n
  <2>5. QED
    BY <2>3, <2>4, ChangesInv DEF c
<1>7. CASE Reset(s)
  <2>1. Acts(s) /\ Changes(s, [c EXCEPT !.look = Baseline(c)])
    BY <1>7 DEF Reset
  <2> HIDE DEF c
  <2>2. [c EXCEPT !.look = Baseline(c)] \in Whole /\ [c EXCEPT !.look = Baseline(c)].from = c.from
    BY <1>1, <1>2, LookChanged
  <2>3. QED
    BY <2>1, <2>2, ChangesInv DEF c
<1>8. CASE EditRest(s)
  <2>1. Acts(s) /\ Changes(s, [c EXCEPT !.rest = 1 + MaxOps - ops])
    BY <1>8 DEF EditRest
  <2>2. 1 + MaxOps - ops \in 0 .. MaxOps
    BY <2>1, ActsType DEF ViewInv
  <2> HIDE DEF c
  <2>3. /\ [c EXCEPT !.rest = 1 + MaxOps - ops] \in Whole
        /\ [c EXCEPT !.rest = 1 + MaxOps - ops].from = c.from
    BY <1>1, <2>2, RestChanged
  <2>4. QED
    BY <2>1, <2>3, ChangesInv DEF c
<1>9. CASE StarPreset(s)
  <2>1. PICK p \in DOMAIN c.presets : Acts(s) /\ Changes(s, [c EXCEPT !.active = p])
    BY <1>9 DEF StarPreset
  <2> HIDE DEF c
  <2>2. [c EXCEPT !.active = p] \in Whole /\ [c EXCEPT !.active = p].from = c.from
    BY <1>1, <2>1, ActiveChanged
  <2>3. QED
    BY <2>1, <2>2, ChangesInv DEF c
<1>10. CASE DeletePreset(s)
  <2>1. PICK p \in DOMAIN c.presets : Acts(s) /\ Changes(s, WithoutPreset(c, p))
    BY <1>10 DEF DeletePreset
  <2> HIDE DEF c
  <2>2. WithoutPreset(c, p) \in Whole /\ WithoutPreset(c, p).from = c.from
    BY <1>1, <2>1, PresetDeleted
  <2>3. QED
    BY <2>1, <2>2, ChangesInv DEF c
<1>11. QED
  BY <1>3, <1>4, <1>5, <1>6, <1>7, <1>8, <1>9, <1>10 DEF Toolbar, PresetsPage

-----------------------------------------------------------------------------
(* The tabs of the views.                                                  *)

LEMMA ChosenSession ==
    ASSUME NEW S \in Session, Sound(S), NEW v \in Views
    PROVE  LET R == Rendered([S EXCEPT !.chosen = v])
           IN  /\ R \in Session /\ Sound(R) /\ R.shown = Active(R.cache, R.chosen)
               /\ R.sent = S.sent /\ SameChanges(R, S)
<1> DEFINE C == [S EXCEPT !.chosen = v]
<1>1. /\ C \in Session /\ C.cache = S.cache /\ C.answer = S.answer /\ C.sent = S.sent
      /\ C.shown = S.shown /\ C.local = S.local /\ C.timer = S.timer
      /\ C.touched = S.touched /\ C.clean = S.clean
  BY DEF Session
<1> HIDE DEF C
<1>2. Sound(C)
  BY <1>1 DEF Sound
<1> DEFINE R == Rendered(C)
<1>3. /\ R \in Session /\ Sound(R) /\ R.shown = Active(R.cache, R.chosen)
      /\ R.sent = C.sent /\ SameChanges(R, C)
  BY <1>1, <1>2, RenderedSession
<1> HIDE DEF R
<1>4. SameChanges(R, S)
  BY <1>1, <1>3 DEF SameChanges
<1>5. QED
  BY <1>1, <1>3, <1>4 DEF R, C

LEMMA SwitchViewInv ==
    ASSUME ViewInv, NEW s \in Sessions, SwitchView(s)
    PROVE  ViewInv'
<1> USE DEF ViewInv
<1>1. PICK v \in Views : /\ Acts(s)
                         /\ sess' = [sess EXCEPT ![s] = Rendered([sess[s] EXCEPT !.chosen = v])]
                         /\ UNCHANGED <<live, minted, order, stored, net, lineage>>
  BY DEF SwitchView
<1>2. sess[s] \in Session /\ Sound(sess[s])
  BY SoundSession
<1> DEFINE R == Rendered([sess[s] EXCEPT !.chosen = v])
<1>3. /\ R \in Session /\ Sound(R) /\ R.shown = Active(R.cache, R.chosen)
      /\ SameChanges(R, sess[s])
  BY <1>2, ChosenSession
<1>4. ops' \in 0 .. MaxOps
  BY <1>1, ActsType
<1>5. sess' = [sess EXCEPT ![s] = R]
  BY <1>1
<1> HIDE DEF R
<1>6. QED
  BY <1>1, <1>3, <1>4, <1>5, PageStep

(* Sending something leaves the page as it is, unless a view is given up.  *)
LEMMA SendInv ==
    ASSUME ViewInv, NEW s \in Sessions, Acts(s), UNCHANGED sess,
           NEW m \in Add \cup Change \cup Reorder, MessageInv(m), Sends(s, m)
    PROVE  ViewInv'
<1> USE DEF ViewInv
<1>1. /\ sess[s] \in Session /\ Sound(sess[s])
      /\ sess[s].shown = Active(sess[s].cache, sess[s].chosen)
  BY SoundSession
<1>2. sess' = [sess EXCEPT ![s] = sess[s]]
  BY DEF Typed
<1>3. SameChanges(sess[s], sess[s])
  BY DEF SameChanges
<1>4. net' = net \cup {m} /\ UNCHANGED <<live, minted, order, stored, lineage>>
  BY DEF Sends
<1>5. ops' \in 0 .. MaxOps
  BY ActsType
<1>6. QED
  BY <1>1, <1>2, <1>3, <1>4, <1>5, PageStep

LEMMA CachedList ==
    ASSUME ViewInv, NEW s \in Sessions
    PROVE  sess[s].cache \in Seq(Entry) /\ ListAtHome(sess[s].cache)
  BY DEF ViewInv, Typed, Session, SessionInv

LEMMA AddViewInv ==
    ASSUME ViewInv, NEW s \in Sessions, AddView(s) \/ RenameView(s) \/ DuplicateView(s)
    PROVE  ViewInv'
<1>1. CASE AddView(s)
  <2> DEFINE m == [op |-> "add", s |-> s, view |-> NoView, cfg |-> NoConfig]
  <2>1. m \in Add /\ MessageInv(m)
    BY DEF Add, MessageInv, StoredConfigs
  <2>2. Acts(s) /\ UNCHANGED sess /\ Sends(s, m)
    BY <1>1 DEF AddView
  <2> HIDE DEF m
  <2>3. QED
    BY <2>1, <2>2, SendInv
<1>2. CASE RenameView(s)
  <2>1. PICK v \in Views : Acts(s) /\ UNCHANGED sess /\ Sends(s, [op |-> "rename", s |-> s, view |-> v])
    BY <1>2 DEF RenameView
  <2> DEFINE m == [op |-> "rename", s |-> s, view |-> v]
  <2>2. m \in Change /\ MessageInv(m)
    BY DEF Change, MessageInv
  <2>3. Acts(s) /\ UNCHANGED sess /\ Sends(s, m)
    BY <2>1
  <2> HIDE DEF m
  <2>4. QED
    BY <2>2, <2>3, SendInv
<1>3. CASE DuplicateView(s)
  <2> DEFINE q == sess[s].cache
  <2>1. PICK v \in Views : /\ v \in Range(Ids(q)) /\ Acts(s) /\ UNCHANGED sess
                           /\ Sends(s, [op |-> "add", s |-> s, view |-> v, cfg |-> ConfigOf(q, v)])
    BY <1>3 DEF DuplicateView
  <2>2. q \in Seq(Entry) /\ ListAtHome(q)
    BY CachedList
  <2> HIDE DEF q
  <2>3. Active(q, v) = v /\ v # NoView
    <3>1. DOMAIN Ids(q) = DOMAIN q /\ \A i \in DOMAIN q : Ids(q)[i] = q[i].id
      BY <2>2, EntryIds
    <3>2. \E i \in DOMAIN q : q[i].id = v
      BY <2>1, <3>1 DEF Range
    <3>3. q # <<>>
      BY <3>2
    <3>4. QED
      BY <3>2, <3>3, NoneAssumption DEF Active
  <2>4. ConfigOf(q, v) \in StoredConfigs /\ AtHome(v, Hydrated(ConfigOf(q, v)))
    BY <2>2, <2>3, ActiveInList
  <2> DEFINE m == [op |-> "add", s |-> s, view |-> v, cfg |-> ConfigOf(q, v)]
  <2>5. m \in Add /\ MessageInv(m)
    BY <2>3, <2>4 DEF Add, MessageInv
  <2>6. Acts(s) /\ UNCHANGED sess /\ Sends(s, m)
    BY <2>1
  <2> HIDE DEF m
  <2>7. QED
    BY <2>5, <2>6, SendInv
<1>4. QED
  BY <1>1, <1>2, <1>3

LEMMA DeleteViewInv ==
    ASSUME ViewInv, NEW s \in Sessions, DeleteView(s)
    PROVE  ViewInv'
<1> USE DEF ViewInv
<1> DEFINE ids == Ids(sess[s].cache)
<1>1. PICK v \in Views :
        /\ Len(ids) > 1 /\ Acts(s)
        /\ Sends(s, [op |-> "delete", s |-> s, view |-> v])
        /\ sess' = IF v = sess[s].shown
                   THEN [sess EXCEPT ![s] = Rendered([@ EXCEPT !.chosen =
                                                IF ids[1] = v THEN ids[2] ELSE ids[1]])]
                   ELSE sess
  BY DEF DeleteView
<1>2. ids \in Seq(Views)
  BY CachedList, EntryIds
<1>3. 1 \in 1 .. Len(ids) /\ 2 \in 1 .. Len(ids)
  BY <1>1, <1>2, LenProperties
<1> DEFINE u == IF ids[1] = v THEN ids[2] ELSE ids[1]
           m == [op |-> "delete", s |-> s, view |-> v]
           R == Rendered([sess[s] EXCEPT !.chosen = u])
<1>4. ids[1] \in Views /\ ids[2] \in Views
  BY <1>2, <1>3, ElementOfSeq
<1>5. u \in Views
  BY <1>4
<1>6. m \in Change /\ MessageInv(m)
  BY DEF Change, MessageInv
<1>7. Sends(s, m) /\ Acts(s)
  BY <1>1
<1> HIDE DEF m
<1>8. CASE v = sess[s].shown
  <2>1. sess' = [sess EXCEPT ![s] = R]
    BY <1>1, <1>8
  <2>2. sess[s] \in Session /\ Sound(sess[s])
    BY SoundSession
  <2> HIDE DEF u
  <2>3. /\ R \in Session /\ Sound(R) /\ R.shown = Active(R.cache, R.chosen)
        /\ SameChanges(R, sess[s])
    BY <1>5, <2>2, ChosenSession
  <2> HIDE DEF R
  <2>4. ops' \in 0 .. MaxOps
    BY <1>7, ActsType
  <2>5. net' = net \cup {m} /\ UNCHANGED <<live, minted, order, stored, lineage>>
    BY <1>7 DEF Sends
  <2>6. QED
    BY <1>6, <2>1, <2>3, <2>4, <2>5, PageStep
<1>9. CASE v # sess[s].shown
  BY <1>1, <1>6, <1>7, <1>9, SendInv
<1>10. QED
  BY <1>8, <1>9

LEMMA ReordersInv ==
    ASSUME ViewInv, NEW s \in Sessions, NEW q, NEW waits \in BOOLEAN,
           NEW a \in Range(Ids(sess[s].cache)), NEW b,
           \/ b = NoView /\ q = <<a>> \o Without(Ids(sess[s].cache), a)
           \/ /\ b \in Range(Ids(sess[s].cache)) \ {a}
              /\ q = Dropped(Ids(sess[s].cache), a, b),
           Reorders(s, q, waits, a, b)
    PROVE  ViewInv'
<1> DEFINE was == Ids(sess[s].cache)
           alone == \A m \in net : m.op \in {"save", "rename"}
           m == [op |-> "order", s |-> s, ids |-> q, left |-> DOMAIN q, waits |-> waits,
                 good |-> TRUE, alone |-> alone, was |-> was, a |-> a, b |-> b]
<1>1. was \in Seq(Views) /\ IsInjective(was) /\ Range(was) \subseteq minted
  BY CachedList, EntryIds
<1>2. a \in Range(was) /\ a \in Views /\ Range(was) \subseteq Views
  BY <1>1, LenProperties, ElementOfSeq DEF Range
<1>3. /\ q \in Seq(Views) /\ b \in Views \cup {NoView}
      /\ IF b = NoView THEN q = <<a>> \o Without(was, a)
         ELSE b \in Range(was) \ {a} /\ q = Dropped(was, a, b)
  <2>1. CASE b = NoView /\ q = <<a>> \o Without(was, a)
    BY <1>1, <1>2, <2>1, FrontedList
  <2>2. CASE b \in Range(was) \ {a} /\ q = Dropped(was, a, b)
    <3>1. q \in Seq(Views)
      BY <1>1, <1>2, <2>2, DroppedList
    <3>2. b \in Views /\ b # NoView
      BY <1>2, <2>2, NoneAssumption
    <3>3. QED
      BY <2>2, <3>1, <3>2
  <2>3. QED
    BY <2>1, <2>2
<1>4. Sends(s, m) /\ Acts(s) /\ UNCHANGED sess
  BY DEF Reorders
<1> HIDE DEF was
<1>5. alone \in BOOLEAN
  OBVIOUS
<1> HIDE DEF alone
<1>6. DOMAIN q = 1 .. Len(q) /\ DOMAIN q \subseteq Nat
  BY <1>3, LenProperties
<1>7. m \in Reorder
  BY <1>1, <1>2, <1>3, <1>5, <1>6 DEF Reorder
<1>8. ReorderInv(m)
  BY <1>1, <1>2, <1>3 DEF ReorderInv
<1>9. MessageInv(m)
  BY <1>8 DEF MessageInv
<1> HIDE DEF m
<1>10. QED
  BY <1>4, <1>7, <1>9, SendInv

LEMMA MoveViewInv ==
    ASSUME ViewInv, NEW s \in Sessions, MoveView(s) \/ SetDefaultView(s)
    PROVE  ViewInv'
<1>1. CASE MoveView(s)
  <2>1. PICK a, b \in Range(Ids(sess[s].cache)), waits \in BOOLEAN :
          a # b /\ Reorders(s, Dropped(Ids(sess[s].cache), a, b), waits, a, b)
    BY <1>1 DEF MoveView
  <2>2. QED
    BY <2>1, ReordersInv
<1>2. CASE SetDefaultView(s)
  <2>1. PICK a \in Range(Ids(sess[s].cache)) :
          Reorders(s, <<a>> \o Without(Ids(sess[s].cache), a), FALSE, a, NoView)
    BY <1>2 DEF SetDefaultView
  <2>2. QED
    BY <2>1, ReordersInv
<1>3. QED
  BY <1>1, <1>2

(* The page is left, or what it listed comes, fails or is asked for.       *)
LEMMA PageInv ==
    ASSUME ViewInv, NEW s \in Sessions, NEW R \in Session,
           sess' = [sess EXCEPT ![s] = R],
           UNCHANGED <<live, minted, order, stored, net, lineage>>, ops' \in 0 .. MaxOps,
           Sound(R), R.shown = Active(R.cache, R.chosen), SameChanges(R, sess[s])
    PROVE  ViewInv'
<1>1. net' = net
  OBVIOUS
<1>2. QED
  BY <1>1, PageStep

LEMMA EmptyListAtHome == <<>> \in Seq(Entry) /\ ListAtHome(<<>>) /\ \A c : Active(<<>>, c) = NoView
  BY DEF ListAtHome, Ids, IsInjective, Active

LEMMA OpeningSession ==
    ASSUME NEW n \in Nat
    PROVE  LET R == [Opening EXCEPT !.sent = n]
           IN  R \in Session /\ Sound(R) /\ R.shown = Active(R.cache, R.chosen) /\ ~R.touched
<1> DEFINE R == [Opening EXCEPT !.sent = n]
<1>1. /\ R \in Session /\ R.cache = <<>> /\ R.answer = <<>> /\ R.shown = NoView /\ ~R.timer
      /\ ~R.touched
  BY EmptyListAtHome, DefaultWhole DEF Opening, Session
<1> HIDE DEF R
<1>2. QED
  BY <1>1, EmptyListAtHome DEF Sound, R

LEMMA OpsLess ==
    ASSUME Typed, ops > 0, ops' = ops - 1
    PROVE  ops' \in 0 .. MaxOps
<1>1. ops \in 0 .. MaxOps
  BY DEF Typed
<1>2. QED
  BY <1>1, OpsAssumption

LEMMA ReloadInv ==
    ASSUME ViewInv, NEW s \in Sessions, Reload(s)
    PROVE  ViewInv'
<1> DEFINE R == [Opening EXCEPT !.sent = sess[s].sent]
<1>1. sess[s].sent \in Nat
  BY DEF ViewInv, Typed, Session
<1>2. R \in Session /\ Sound(R) /\ R.shown = Active(R.cache, R.chosen) /\ ~R.touched
  BY <1>1, OpeningSession
<1>3. /\ ops > 0 /\ ops' = ops - 1 /\ sess' = [sess EXCEPT ![s] = R]
      /\ UNCHANGED <<live, minted, order, stored, net, lineage>>
  BY DEF Reload
<1> HIDE DEF R
<1>4. SameChanges(R, sess[s])
  BY <1>2 DEF SameChanges
<1>5. ops' \in 0 .. MaxOps
  BY <1>3, OpsLess DEF ViewInv
<1>6. QED
  BY <1>2, <1>3, <1>4, <1>5, PageInv

LEMMA ListArrivesInv ==
    ASSUME ViewInv, NEW s \in Sessions, ListArrives(s)
    PROVE  ViewInv'
<1> DEFINE C == [sess[s] EXCEPT !.cache = sess[s].answer, !.fetch = "idle", !.answer = <<>>]
           R == Rendered(C)
<1>1. sess[s] \in Session /\ Sound(sess[s])
  BY SoundSession DEF ViewInv
<1>2. /\ C \in Session /\ C.cache = sess[s].answer /\ C.answer = <<>> /\ C.sent = sess[s].sent
      /\ C.shown = sess[s].shown /\ C.local = sess[s].local /\ C.timer = sess[s].timer
      /\ C.touched = sess[s].touched /\ C.clean = sess[s].clean
  BY <1>1, EmptyListAtHome DEF Session
<1>3. /\ sess' = [sess EXCEPT ![s] = R]
      /\ UNCHANGED <<live, minted, order, stored, net, ops, lineage>>
  BY DEF ListArrives
<1> HIDE DEF C
<1>4. Sound(C)
  BY <1>1, <1>2, EmptyListAtHome DEF Sound
<1>5. /\ R \in Session /\ Sound(R) /\ R.shown = Active(R.cache, R.chosen)
      /\ R.sent = C.sent /\ SameChanges(R, C)
  BY <1>2, <1>4, RenderedSession
<1> HIDE DEF R
<1>6. SameChanges(R, sess[s])
  BY <1>2, <1>5 DEF SameChanges
<1>7. ops' \in 0 .. MaxOps
  BY <1>3 DEF ViewInv, Typed
<1>8. QED
  BY <1>3, <1>5, <1>6, <1>7, PageInv

LEMMA ListAskedInv ==
    ASSUME ViewInv, NEW s \in Sessions, ListFails(s) \/ Refocus(s)
    PROVE  ViewInv'
<1>1. /\ sess[s] \in Session /\ Sound(sess[s])
      /\ sess[s].shown = Active(sess[s].cache, sess[s].chosen)
  BY SoundSession DEF ViewInv
<1>2. CASE ListFails(s)
  <2> DEFINE R == [sess[s] EXCEPT !.fetch = "idle"]
  <2>1. /\ R \in Session /\ R.cache = sess[s].cache /\ R.answer = sess[s].answer
        /\ R.chosen = sess[s].chosen /\ R.sent = sess[s].sent
        /\ R.shown = sess[s].shown /\ R.local = sess[s].local /\ R.timer = sess[s].timer
        /\ R.touched = sess[s].touched /\ R.clean = sess[s].clean
    BY <1>1 DEF Session
  <2>2. /\ sess' = [sess EXCEPT ![s] = R]
        /\ UNCHANGED <<live, minted, order, stored, net, ops, lineage>>
    BY <1>2 DEF ListFails
  <2> HIDE DEF R
  <2>3. Sound(R) /\ R.shown = Active(R.cache, R.chosen) /\ SameChanges(R, sess[s])
    BY <1>1, <2>1 DEF Sound, SameChanges
  <2>4. ops' \in 0 .. MaxOps
    BY <2>2 DEF ViewInv, Typed
  <2>5. QED
    BY <2>1, <2>2, <2>3, <2>4, PageInv
<1>3. CASE Refocus(s)
  <2> DEFINE R == Invalidated(sess[s])
  <2>1. /\ R \in Session /\ Sound(R) /\ R.cache = sess[s].cache /\ R.chosen = sess[s].chosen
        /\ R.shown = sess[s].shown /\ SameChanges(R, sess[s])
    BY <1>1, InvalidatedSession
  <2>2. /\ sess' = [sess EXCEPT ![s] = R] /\ ops > 0 /\ ops' = ops - 1
        /\ UNCHANGED <<live, minted, order, stored, net, lineage>>
    BY <1>3 DEF Refocus
  <2> HIDE DEF R
  <2>3. R.shown = Active(R.cache, R.chosen)
    BY <1>1, <2>1
  <2>4. ops' \in 0 .. MaxOps
    BY <2>2, OpsLess DEF ViewInv
  <2>5. QED
    BY <2>1, <2>2, <2>3, <2>4, PageInv
<1>4. QED
  BY <1>2, <1>3

-----------------------------------------------------------------------------
(* The server's answers.                                                   *)

LEMMA AnswerStep ==
    ASSUME ViewInv, NEW s \in Sessions, NEW R \in Session,
           sess' = [sess EXCEPT ![s] = R], UNCHANGED ops,
           Sound(R), R.shown = Active(R.cache, R.chosen), SameChanges(R, sess[s]),
           Grows, live' \subseteq minted', minted' \subseteq Views, order' \in [Views -> Nat],
           stored' \in [Views -> StoredConfigs], lineage' \in [Views -> SUBSET Views],
           OrdersBounded', IsFiniteSet(live'), live' \cap minted \subseteq live,
           \A v \in minted : stored'[v] = stored[v],
           \A v \in minted' \ minted : v \in lineage'[v] /\ AtHome(v, Hydrated(stored[v]))',
           net' \subseteq Save \cup Add \cup Change \cup Reorder,
           \A m \in net \cup net' : m.op = "save" => (m \in net <=> m \in net'),
           \A m \in net' : MessageInv(m)'
    PROVE  ViewInv'
<1> USE DEF ViewInv
<1>1. sess' \in [Sessions -> Session] /\ sess'[s] = R /\ \A t \in Sessions \ {s} : sess'[t] = sess[t]
  BY DEF Typed
<1>2. Typed'
  BY <1>1 DEF Typed
<1>3. ASSUME NEW t \in Sessions PROVE SessionInv(t)' /\ SameChanges(sess'[t], sess[t])
  <2>1. CASE t = s
    BY <1>1, <2>1, SessionInvNext
  <2>2. CASE t # s
    <3>1. sess'[t] = sess[t]
      BY <1>1, <2>2
    <3>2. Sound(sess[t]) /\ sess[t].shown = Active(sess[t].cache, sess[t].chosen)
      BY SoundSession
    <3>3. QED
      BY <3>1, <3>2, SessionInvNext DEF SameChanges
  <2>3. QED
    BY <2>1, <2>2
<1>4. QED
  BY <1>2, <1>3, StepInv

(* An answer that changes the list disturbs the other drags under way.     *)
LEMMA OthersInv ==
    ASSUME Typed, Grows, \A k \in net : MessageInv(k), NEW m \in net
    PROVE  /\ Others(m) \subseteq Save \cup Add \cup Change \cup Reorder
           /\ \A k \in Others(m) : MessageInv(k)'
           /\ \A k \in Others(m) : k.op = "save" => k \in net \ {m}
           /\ \A k \in net \ {m} : k.op = "save" => k \in Others(m)
<1> DEFINE other(n) == IF n.op = "order" /\ n # m THEN [n EXCEPT !.alone = FALSE] ELSE n
<1>1. Others(m) = {other(n) : n \in net \ {m}}
  BY DEF Others
<1>2. ASSUME NEW n \in net \ {m}
      PROVE  /\ other(n) \in Save \cup Add \cup Change \cup Reorder
             /\ MessageInv(other(n))'
             /\ other(n).op = n.op
             /\ n.op = "save" => other(n) = n
  <2>1. CASE n.op = "order"
    <3>1. n \in Reorder /\ ReorderInv(n)
      BY <2>1, MessageTypes DEF MessageInv
    <3> DEFINE k == [n EXCEPT !.alone = FALSE]
    <3>2. /\ k \in Reorder /\ k.op = "order" /\ ~k.alone /\ k.good = n.good /\ k.was = n.was
          /\ k.ids = n.ids /\ k.left = n.left /\ k.a = n.a /\ k.b = n.b
      BY <3>1 DEF Reorder
    <3>3. other(n) = k
      BY <2>1
    <3> HIDE DEF k
    <3>4. ReorderInv(k)
      BY <3>1, <3>2 DEF ReorderInv
    <3>5. MessageInv(k)
      BY <3>2, <3>4 DEF MessageInv
    <3>6. MessageInv(k)'
      BY <3>2, <3>5, MessageKept
    <3> HIDE DEF other
    <3>7. QED
      BY <2>1, <3>2, <3>3, <3>6
  <2>2. CASE n.op # "order"
    <3>1. other(n) = n
      BY <2>2
    <3>2. MessageInv(n)'
      BY <2>2, MessageKept
    <3>3. n \in Save \cup Add \cup Change \cup Reorder
      BY DEF Typed
    <3> HIDE DEF other
    <3>4. QED
      BY <3>1, <3>2, <3>3
  <2>3. QED
    BY <2>1, <2>2
<1> HIDE DEF other
<1>3. Others(m) \subseteq Save \cup Add \cup Change \cup Reorder
  BY <1>1, <1>2
<1>4. \A k \in Others(m) : MessageInv(k)'
  BY <1>1, <1>2
<1>5. \A k \in Others(m) : k.op = "save" => k \in net \ {m}
  BY <1>1, <1>2
<1>6. \A k \in net \ {m} : k.op = "save" => k \in Others(m)
  BY <1>1, <1>2
<1>7. QED
  BY <1>3, <1>4, <1>5, <1>6

LEMMA FreshView ==
    ASSUME Typed, minted # Views
    PROVE  Fresh \in Views \ minted
<1>1. \E v : v \in Views \ minted
  BY DEF Typed
<1>2. QED
  BY <1>1 DEF Fresh

LEMMA NextOrderType ==
    ASSUME Typed, OrdersBounded
    PROVE  NextOrder \in Nat
<1> DEFINE S == {order[v] + 1 : v \in live} \cup {0}
<1>1. PICK n \in Nat : \A v \in Views : order[v] <= n
  BY DEF OrdersBounded
<1>2. \A v \in live : order[v] \in Nat /\ order[v] <= n
  BY <1>1 DEF Typed
<1>3. S \in SUBSET Nat /\ S # {} /\ n + 1 \in Nat /\ \A k \in S : k <= n + 1
  BY <1>2
<1> HIDE DEF S
<1>4. Max(S) \in S
  BY <1>3, MaxIsGreatest
<1>5. QED
  BY <1>3, <1>4 DEF NextOrder, S

LEMMA InsertedView ==
    ASSUME ViewInv, NEW v \in Views \ minted, NEW n \in Nat, NEW cfg \in StoredConfigs,
           NEW kin \in SUBSET Views, Hydrated(cfg).from \subseteq kin,
           Inserted(v, n, cfg, kin)
    PROVE  /\ Grows /\ live' \subseteq minted' /\ minted' \subseteq Views
           /\ order' \in [Views -> Nat] /\ stored' \in [Views -> StoredConfigs]
           /\ lineage' \in [Views -> SUBSET Views]
           /\ OrdersBounded' /\ IsFiniteSet(live') /\ live' \cap minted \subseteq live
           /\ \A u \in minted : stored'[u] = stored[u]
           /\ \A u \in minted' \ minted : u \in lineage'[u] /\ AtHome(u, Hydrated(stored[u]))'
           /\ v \in minted' /\ stored'[v] = cfg
<1> USE DEF ViewInv
<1>1. /\ live' = live \cup {v} /\ minted' = minted \cup {v}
      /\ order' = [order EXCEPT ![v] = n]
      /\ stored' = [stored EXCEPT ![v] = cfg]
      /\ lineage' = [lineage EXCEPT ![v] = {v} \cup kin]
  BY DEF Inserted
<1>2. /\ order' \in [Views -> Nat] /\ stored' \in [Views -> StoredConfigs]
      /\ lineage' \in [Views -> SUBSET Views]
      /\ live' \subseteq minted' /\ minted' \subseteq Views /\ live' \cap minted \subseteq live
  BY <1>1 DEF Typed
<1>3. Grows /\ \A u \in minted : stored'[u] = stored[u]
  BY <1>1 DEF Typed, Grows
<1>4. lineage'[v] = {v} \cup kin /\ stored'[v] = cfg /\ v \in minted'
  BY <1>1 DEF Typed
<1>5. AtHome(v, Hydrated(cfg))'
  BY <1>4 DEF AtHome
<1>6. \A u \in minted' \ minted : u \in lineage'[u] /\ AtHome(u, Hydrated(stored[u]))'
  BY <1>1, <1>4, <1>5
<1>7. OrdersBounded'
  <2>1. PICK k \in Nat : \A u \in Views : order[u] <= k
    BY DEF OrdersBounded
  <2>2. k + n \in Nat /\ \A u \in Views : order'[u] <= k + n
    BY <1>1, <2>1 DEF Typed
  <2>3. QED
    BY <2>2 DEF OrdersBounded
<1>8. IsFiniteSet(live')
  BY <1>1, FS_AddElement DEF ViewsAtHome
<1>9. QED
  BY <1>2, <1>3, <1>4, <1>6, <1>7, <1>8

LEMMA AddArrivesInv ==
    ASSUME ViewInv, NEW m \in net, AddArrives(m)
    PROVE  ViewInv'
<1> USE DEF ViewInv
<1> DEFINE v == Fresh
           kin == IF m.view = NoView THEN {} ELSE lineage[m.view]
           S == Invalidated(sess[m.s])
           R == Rendered([S EXCEPT !.chosen = v])
<1>1. /\ m.op = "add" /\ minted # Views /\ Inserted(v, NextOrder, m.cfg, kin)
      /\ net' = Others(m) /\ UNCHANGED ops
      /\ sess' = [sess EXCEPT ![m.s] = R]
  BY DEF AddArrives
<1>2. m \in Add /\ m.s \in Sessions
  BY <1>1, MessageTypes
<1>3. v \in Views \ minted /\ NextOrder \in Nat
  BY <1>1, FreshView, NextOrderType
<1>4. kin \in SUBSET Views /\ m.cfg \in StoredConfigs /\ Hydrated(m.cfg).from \subseteq kin
  <2>1. m.cfg \in StoredConfigs /\ m.view \in Views \cup {NoView}
    BY <1>2 DEF Add
  <2>2. CASE m.view = NoView
    BY <1>1, <2>1, <2>2, DefaultWhole DEF MessageInv, Hydrated
  <2>3. CASE m.view # NoView
    BY <1>1, <2>1, <2>3 DEF MessageInv, AtHome, Typed
  <2>4. QED
    BY <2>2, <2>3, <2>1
<1>5. sess[m.s] \in Session /\ Sound(sess[m.s])
  BY <1>2, SoundSession
<1>6. S \in Session /\ Sound(S) /\ SameChanges(S, sess[m.s])
  BY <1>5, InvalidatedSession
<1> HIDE DEF v, S
<1>7. /\ R \in Session /\ Sound(R) /\ R.shown = Active(R.cache, R.chosen)
      /\ SameChanges(R, S)
  BY <1>3, <1>6, ChosenSession
<1> HIDE DEF R, kin
<1>8. SameChanges(R, sess[m.s])
  BY <1>6, <1>7 DEF SameChanges
<1>9. /\ Grows /\ live' \subseteq minted' /\ minted' \subseteq Views
      /\ order' \in [Views -> Nat] /\ stored' \in [Views -> StoredConfigs]
      /\ lineage' \in [Views -> SUBSET Views]
      /\ OrdersBounded' /\ IsFiniteSet(live') /\ live' \cap minted \subseteq live
      /\ \A u \in minted : stored'[u] = stored[u]
      /\ \A u \in minted' \ minted : u \in lineage'[u] /\ AtHome(u, Hydrated(stored[u]))'
  BY <1>1, <1>3, <1>4, InsertedView
<1>10. /\ net' \subseteq Save \cup Add \cup Change \cup Reorder
       /\ \A k \in net' : MessageInv(k)'
       /\ \A k \in net \cup net' : k.op = "save" => (k \in net <=> k \in net')
  BY <1>1, <1>9, OthersInv
<1>11. QED
  BY <1>1, <1>2, <1>7, <1>8, <1>9, <1>10, AnswerStep

(* The list is asked for again, or nothing happens on the page.            *)
LEMMA PageAfterAnswer ==
    ASSUME ViewInv, NEW s \in Sessions,
           UNCHANGED sess \/ sess' = [sess EXCEPT ![s] = Invalidated(@)]
    PROVE  \E R \in Session : /\ sess' = [sess EXCEPT ![s] = R]
                              /\ Sound(R) /\ R.shown = Active(R.cache, R.chosen)
                              /\ SameChanges(R, sess[s])
<1> USE DEF ViewInv
<1>1. /\ sess[s] \in Session /\ Sound(sess[s])
      /\ sess[s].shown = Active(sess[s].cache, sess[s].chosen)
  BY SoundSession
<1>2. CASE UNCHANGED sess
  <2>1. sess' = [sess EXCEPT ![s] = sess[s]] /\ SameChanges(sess[s], sess[s])
    BY <1>2 DEF Typed, SameChanges
  <2>2. QED
    BY <1>1, <2>1
<1>3. CASE sess' = [sess EXCEPT ![s] = Invalidated(@)]
  <2> DEFINE R == Invalidated(sess[s])
  <2>1. /\ R \in Session /\ Sound(R) /\ R.cache = sess[s].cache /\ R.chosen = sess[s].chosen
        /\ R.shown = sess[s].shown /\ SameChanges(R, sess[s])
    BY <1>1, InvalidatedSession
  <2>2. sess' = [sess EXCEPT ![s] = R]
    BY <1>3
  <2> HIDE DEF R
  <2>3. QED
    BY <1>1, <2>1, <2>2
<1>4. QED
  BY <1>2, <1>3

LEMMA QuietAnswer ==
    ASSUME ViewInv, NEW s \in Sessions,
           UNCHANGED sess \/ sess' = [sess EXCEPT ![s] = Invalidated(@)],
           UNCHANGED <<minted, stored, ops, lineage>>, live' \subseteq live,
           order' \in [Views -> Nat], OrdersBounded',
           net' \subseteq Save \cup Add \cup Change \cup Reorder,
           \A m \in net \cup net' : m.op = "save" => (m \in net <=> m \in net'),
           \A m \in net' : MessageInv(m)'
    PROVE  ViewInv'
<1> USE DEF ViewInv
<1>1. PICK R \in Session : /\ sess' = [sess EXCEPT ![s] = R]
                           /\ Sound(R) /\ R.shown = Active(R.cache, R.chosen)
                           /\ SameChanges(R, sess[s])
  BY PageAfterAnswer
<1>2. Grows
  BY DEF Grows
<1>3. IsFiniteSet(live')
  BY FS_Subset DEF ViewsAtHome
<1>4. /\ live' \subseteq minted' /\ minted' \subseteq Views /\ stored' \in [Views -> StoredConfigs]
      /\ lineage' \in [Views -> SUBSET Views] /\ live' \cap minted \subseteq live
      /\ \A v \in minted : stored'[v] = stored[v]
      /\ \A v \in minted' \ minted : v \in lineage'[v] /\ AtHome(v, Hydrated(stored[v]))'
  BY DEF Typed
<1>5. QED
  BY <1>1, <1>2, <1>3, <1>4, AnswerStep

LEMMA ListChangedInv ==
    ASSUME ViewInv, NEW m \in net, DeleteArrives(m) \/ RenameArrives(m) \/ OrderSettled(m)
    PROVE  ViewInv'
<1> USE DEF ViewInv
<1>1. m.s \in Sessions
  BY MessageTypes
<1>2. /\ UNCHANGED <<minted, order, stored, ops, lineage>> /\ live' \subseteq live
      /\ UNCHANGED sess \/ sess' = [sess EXCEPT ![m.s] = Invalidated(@)]
      /\ net' \in {Others(m), net \ {m}} /\ m.op # "save"
  BY DEF DeleteArrives, RenameArrives, OrderSettled
<1>3. Grows
  BY <1>2 DEF Grows
<1>4. order' \in [Views -> Nat] /\ OrdersBounded'
  BY <1>2 DEF Typed, OrdersBounded
<1>5. /\ net' \subseteq Save \cup Add \cup Change \cup Reorder
      /\ \A k \in net' : MessageInv(k)'
      /\ \A k \in net \cup net' : k.op = "save" => (k \in net <=> k \in net')
  <2>1. CASE net' = Others(m)
    BY <1>2, <1>3, <2>1, OthersInv
  <2>2. CASE net' = net \ {m}
    <3>1. \A k \in net : MessageInv(k)'
      BY <1>2, <1>3, MessageKept
    <3>2. QED
      BY <1>2, <2>2, <3>1 DEF Typed
  <2>3. QED
    BY <1>2, <2>1, <2>2
<1>6. QED
  BY <1>1, <1>2, <1>4, <1>5, QuietAnswer

(* One more view of a drag is in its place.                                *)
LEMMA OrderArrivesInv ==
    ASSUME ViewInv, NEW m \in net, OrderArrives(m)
    PROVE  ViewInv'
<1> USE DEF ViewInv
<1>1. PICK i \in m.left :
        /\ m.op = "order"
        /\ order' = [order EXCEPT ![m.ids[i]] = i - 1]
        /\ net' = Others(m) \cup {[m EXCEPT !.left = m.left \ {i}]}
        /\ UNCHANGED sess \/ sess' = [sess EXCEPT ![m.s] = Invalidated(@)]
        /\ UNCHANGED <<live, minted, stored, ops, lineage>>
  BY DEF OrderArrives
<1>2. m \in Reorder /\ ReorderInv(m) /\ m.s \in Sessions
  BY <1>1, MessageTypes DEF MessageInv
<1>3. /\ IsInjective(m.ids) /\ DOMAIN m.ids = 1 .. Len(m.ids) /\ Len(m.ids) \in Nat
      /\ \A j \in DOMAIN m.ids : m.ids[j] \in Views
  BY <1>2, ReorderList
<1>4. i \in DOMAIN m.ids /\ m.left \subseteq DOMAIN m.ids
  BY <1>2 DEF ReorderInv
<1>5. i \in Nat /\ i - 1 \in Nat
  BY <1>3, <1>4
<1>6. order' \in [Views -> Nat] /\ order'[m.ids[i]] = i - 1
  BY <1>1, <1>3, <1>4, <1>5 DEF Typed
<1>7. OrdersBounded'
  <2>1. PICK k \in Nat : \A u \in Views : order[u] <= k
    BY DEF OrdersBounded
  <2>2. ASSUME NEW u \in Views PROVE order'[u] <= k + i
    <3>1. order[u] \in Nat /\ order[u] <= k
      BY <2>1 DEF Typed
    <3>2. order'[u] = order[u] \/ order'[u] = i - 1
      BY <1>1 DEF Typed
    <3>3. QED
      BY <1>5, <3>1, <3>2
  <2>3. k + i \in Nat
    BY <1>5
  <2>4. QED
    BY <2>2, <2>3 DEF OrdersBounded
<1>8. Grows
  BY <1>1 DEF Grows
<1> DEFINE rest == [m EXCEPT !.left = m.left \ {i}]
<1>9. rest \in Reorder /\ MessageInv(rest)' /\ rest.op = "order"
  <2>1. /\ rest \in Reorder /\ rest.op = "order" /\ rest.left = m.left \ {i} /\ rest.was = m.was
        /\ rest.ids = m.ids /\ rest.alone = m.alone /\ rest.good = m.good
        /\ rest.a = m.a /\ rest.b = m.b
    BY <1>1, <1>2 DEF Reorder
  <2> HIDE DEF rest
  <2>2. (m.alone /\ m.good) => \A j \in DOMAIN m.ids \ rest.left : order'[m.ids[j]] = j - 1
    <3>1. SUFFICES ASSUME m.alone, m.good, NEW j \in DOMAIN m.ids \ (m.left \ {i})
                   PROVE  order'[m.ids[j]] = j - 1
      BY <2>1
    <3>2. CASE j = i
      BY <1>6, <3>2
    <3>3. CASE j # i
      <4>1. order[m.ids[j]] = j - 1
        BY <1>2, <3>1, <3>3 DEF ReorderInv
      <4>2. m.ids[j] # m.ids[i]
        BY <1>3, <1>4, <3>3 DEF IsInjective
      <4>3. QED
        BY <1>1, <1>3, <4>1, <4>2 DEF Typed
    <3>4. QED
      BY <3>2, <3>3
  <2>3. ReorderInv(rest)'
    BY <1>2, <1>8, <2>1, <2>2 DEF ReorderInv, Grows
  <2>4. QED
    BY <2>1, <2>3 DEF MessageInv
<1>10. net' = Others(m) \cup {rest}
  BY <1>1
<1> HIDE DEF rest
<1>11. /\ Others(m) \subseteq Save \cup Add \cup Change \cup Reorder
       /\ \A k \in Others(m) : MessageInv(k)'
       /\ \A k \in Others(m) : k.op = "save" => k \in net \ {m}
       /\ \A k \in net \ {m} : k.op = "save" => k \in Others(m)
  BY <1>8, OthersInv
<1>12. /\ net' \subseteq Save \cup Add \cup Change \cup Reorder
       /\ \A k \in net' : MessageInv(k)'
       /\ \A k \in net \cup net' : k.op = "save" => (k \in net <=> k \in net')
  BY <1>1, <1>9, <1>10, <1>11
<1>13. UNCHANGED <<minted, stored, ops, lineage>> /\ live' \subseteq live
  BY <1>1
<1>14. QED
  BY <1>1, <1>2, <1>6, <1>7, <1>12, <1>13, QuietAnswer

LEMMA LostInv ==
    ASSUME ViewInv, NEW m \in net, Lost(m), m.op # "save"
    PROVE  ViewInv'
<1> USE DEF ViewInv
<1>1. m.s \in Sessions
  BY MessageTypes
<1>2. UNCHANGED <<live, minted, order, stored, sess, ops, lineage>>
  BY DEF Lost
<1>3. Grows
  BY <1>2 DEF Grows
<1>4. \A k \in net : MessageInv(k)'
  BY <1>2, <1>3, MessageKept
<1>5. /\ net' \subseteq Save \cup Add \cup Change \cup Reorder
      /\ \A k \in net' : MessageInv(k)'
      /\ \A k \in net \cup net' : k.op = "save" => (k \in net <=> k \in net')
  <2>1. CASE m.op = "order"
    <3>1. PICK i \in m.left : net' = (net \ {m}) \cup {[m EXCEPT !.left = m.left \ {i}, !.good = FALSE]}
      BY <2>1 DEF Lost
    <3>2. m \in Reorder /\ ReorderInv(m)
      BY <2>1, MessageTypes DEF MessageInv
    <3> DEFINE rest == [m EXCEPT !.left = m.left \ {i}, !.good = FALSE]
    <3>3. /\ rest \in Reorder /\ rest.op = "order" /\ rest.left = m.left \ {i} /\ rest.was = m.was
          /\ rest.ids = m.ids /\ ~rest.good /\ rest.a = m.a /\ rest.b = m.b
      BY <2>1, <3>2 DEF Reorder
    <3>4. net' = (net \ {m}) \cup {rest}
      BY <3>1
    <3> HIDE DEF rest
    <3>5. ReorderInv(rest)'
      BY <1>3, <3>2, <3>3 DEF ReorderInv, Grows
    <3>6. MessageInv(rest)'
      BY <3>3, <3>5 DEF MessageInv
    <3>7. QED
      BY <1>4, <2>1, <3>3, <3>4, <3>6 DEF Typed
  <2>2. CASE m.op # "order"
    <3>1. net' = net \ {m}
      BY <2>2 DEF Lost
    <3>2. QED
      BY <1>4, <3>1 DEF Typed
  <2>3. QED
    BY <2>1, <2>2
<1>6. order' \in [Views -> Nat] /\ OrdersBounded'
  BY <1>2 DEF Typed, OrdersBounded
<1>7. QED
  BY <1>1, <1>2, <1>5, <1>6, QuietAnswer

(* A list in the order of the order column has each view once.             *)
LEMMA ListOfViews ==
    ASSUME Typed, ViewsAtHome, NEW q \in Lists
    PROVE  /\ q \in Seq(Views) /\ IsInjective(q) /\ DOMAIN q = 1 .. Cardinality(live)
           /\ Len(q) = Cardinality(live) /\ Cardinality(live) \in Nat
           /\ \A i \in DOMAIN q : q[i] \in live
<1>1. Cardinality(live) \in Nat
  BY FS_CardinalityType DEF ViewsAtHome
<1>2. q \in [1 .. Cardinality(live) -> live] /\ IsInjective(q)
  BY DEF Lists
<1>3. q \in [1 .. Cardinality(live) -> Views]
  BY <1>2 DEF Typed
<1>4. q \in Seq(Views)
  BY <1>1, <1>3, SeqDef
<1>5. Len(q) = Cardinality(live)
  BY <1>1, <1>3, <1>4, LenProperties
<1>6. QED
  BY <1>1, <1>2, <1>4, <1>5

LEMMA AnswerEntries ==
    ASSUME NEW q \in Seq(Views), NEW cfg \in [Views -> StoredConfigs]
    PROVE  /\ Answer(q, cfg) \in Seq(Entry) /\ Ids(Answer(q, cfg)) = q
           /\ DOMAIN Answer(q, cfg) = DOMAIN q
           /\ \A i \in DOMAIN q : Answer(q, cfg)[i] = [id |-> q[i], cfg |-> cfg[q[i]]]
<1>1. DOMAIN q = 1 .. Len(q) /\ Len(q) \in Nat /\ \A i \in 1 .. Len(q) : q[i] \in Views
  BY LenProperties, ElementOfSeq
<1> DEFINE A == [i \in 1 .. Len(q) |-> [id |-> q[i], cfg |-> cfg[q[i]]]]
<1>2. Answer(q, cfg) = A
  BY <1>1 DEF Answer
<1>3. \A i \in 1 .. Len(q) : [id |-> q[i], cfg |-> cfg[q[i]]] \in Entry
  BY <1>1 DEF Entry
<1>4. A \in Seq(Entry)
  BY <1>1, <1>3, IsASeq
<1>5. Ids(A) = [i \in 1 .. Len(q) |-> q[i]]
  BY DEF Ids
<1>6. q = [i \in 1 .. Len(q) |-> q[i]]
  BY <1>1
<1>7. QED
  BY <1>1, <1>2, <1>4, <1>5, <1>6

LEMMA ListViewsInv ==
    ASSUME ViewInv, NEW s \in Sessions, ListViews(s)
    PROVE  ViewInv'
<1> USE DEF ViewInv
<1>1. /\ sess[s] \in Session /\ Sound(sess[s])
      /\ sess[s].shown = Active(sess[s].cache, sess[s].chosen)
  BY SoundSession
<1>2. UNCHANGED <<net, ops>> /\ ops' \in 0 .. MaxOps
  BY DEF ListViews, Typed
<1>3. CASE live # {}
  <2>1. PICK q \in Lists :
          /\ sess' = [sess EXCEPT ![s].fetch = "answered", ![s].answer = Answer(q, stored)]
          /\ UNCHANGED <<live, minted, order, stored, lineage>>
    BY <1>3 DEF ListViews
  <2>2. /\ q \in Seq(Views) /\ IsInjective(q) /\ \A i \in DOMAIN q : q[i] \in live
    BY ListOfViews
  <2> DEFINE A == Answer(q, stored)
  <2>3. /\ A \in Seq(Entry) /\ Ids(A) = q /\ DOMAIN A = DOMAIN q
        /\ \A i \in DOMAIN q : A[i] = [id |-> q[i], cfg |-> stored[q[i]]]
    BY <2>2, AnswerEntries DEF Typed
  <2> HIDE DEF A
  <2>4. ListAtHome(A)
    <3>1. ASSUME NEW i \in DOMAIN A PROVE AtHome(A[i].id, Hydrated(A[i].cfg))
      <4>1. q[i] \in minted /\ A[i].id = q[i] /\ A[i].cfg = stored[q[i]]
        BY <2>2, <2>3 DEF Typed
      <4>2. QED
        BY <4>1 DEF ViewsAtHome
    <3>2. QED
      BY <2>2, <2>3, <3>1 DEF ListAtHome
  <2> DEFINE R == [sess[s] EXCEPT !.fetch = "answered", !.answer = A]
  <2>5. /\ R \in Session /\ R.cache = sess[s].cache /\ R.answer = A
        /\ R.chosen = sess[s].chosen /\ R.sent = sess[s].sent
        /\ R.shown = sess[s].shown /\ R.local = sess[s].local /\ R.timer = sess[s].timer
        /\ R.touched = sess[s].touched /\ R.clean = sess[s].clean
    BY <1>1, <2>3 DEF Session
  <2>6. sess' = [sess EXCEPT ![s] = R]
    BY <2>1 DEF A
  <2> HIDE DEF R
  <2>7. Sound(R) /\ R.shown = Active(R.cache, R.chosen) /\ SameChanges(R, sess[s])
    BY <1>1, <2>4, <2>5 DEF Sound, SameChanges
  <2>8. UNCHANGED <<live, minted, order, stored, net, lineage>>
    BY <1>2, <2>1
  <2>9. QED
    BY <1>2, <2>5, <2>6, <2>7, <2>8, PageInv
<1>4. CASE live = {}
  <2>1. PICK v : v = Fresh
    OBVIOUS
  <2>2. /\ minted # Views /\ Inserted(v, 0, NoConfig, {})
        /\ sess' = [sess EXCEPT ![s].fetch = "answered", ![s].answer = Answer(<<v>>, stored')]
    BY <1>4, <2>1 DEF ListViews
  <2>3. v \in Views \ minted
    BY <2>1, <2>2, FreshView
  <2>4. NoConfig \in StoredConfigs /\ Hydrated(NoConfig).from \subseteq {} /\ {} \in SUBSET Views
    BY DefaultWhole DEF StoredConfigs, Hydrated
  <2>5. /\ Grows /\ live' \subseteq minted' /\ minted' \subseteq Views
        /\ order' \in [Views -> Nat] /\ stored' \in [Views -> StoredConfigs]
        /\ lineage' \in [Views -> SUBSET Views]
        /\ OrdersBounded' /\ IsFiniteSet(live') /\ live' \cap minted \subseteq live
        /\ \A u \in minted : stored'[u] = stored[u]
        /\ \A u \in minted' \ minted : u \in lineage'[u] /\ AtHome(u, Hydrated(stored[u]))'
        /\ v \in minted' /\ stored'[v] = NoConfig
    BY <2>2, <2>3, <2>4, InsertedView
  <2>6. PICK A : A = Answer(<<v>>, stored')
    OBVIOUS
  <2>7. /\ A \in Seq(Entry) /\ Ids(A) = <<v>> /\ DOMAIN A = {1}
        /\ A[1] = [id |-> v, cfg |-> NoConfig]
    <3>1. <<v>> \in Seq(Views) /\ DOMAIN <<v>> = {1} /\ <<v>>[1] = v
      BY <2>3
    <3> DEFINE q == <<v>>
    <3> HIDE DEF q
    <3>2. PICK cfg : cfg = stored'
      OBVIOUS
    <3>3. q \in Seq(Views) /\ cfg \in [Views -> StoredConfigs] /\ A = Answer(q, cfg)
      BY <2>5, <2>6, <3>1, <3>2 DEF q
    <3>4. /\ A \in Seq(Entry) /\ Ids(A) = q /\ DOMAIN A = DOMAIN q
          /\ \A i \in DOMAIN q : A[i] = [id |-> q[i], cfg |-> cfg[q[i]]]
      BY <3>3, AnswerEntries
    <3>5. QED
      BY <2>5, <3>1, <3>2, <3>4 DEF q
  <2>8. PICK R : R = [sess[s] EXCEPT !.fetch = "answered", !.answer = A]
    OBVIOUS
  <2>9. sess' = [sess EXCEPT ![s] = R]
    BY <2>2, <2>6, <2>8
  <2>10. /\ R \in Session /\ R.cache = sess[s].cache /\ R.answer = A
        /\ R.chosen = sess[s].chosen /\ R.sent = sess[s].sent
        /\ R.shown = sess[s].shown /\ R.local = sess[s].local /\ R.timer = sess[s].timer
        /\ R.touched = sess[s].touched /\ R.clean = sess[s].clean
    BY <1>1, <2>7, <2>8 DEF Session
  <2>11. SameChanges(R, sess[s])
    BY <2>10 DEF SameChanges
  <2>12. sess' \in [Sessions -> Session] /\ sess'[s] = R /\ \A t \in Sessions \ {s} : sess'[t] = sess[t]
    BY <2>9, <2>10 DEF Typed
  <2>13. Typed'
    BY <1>2, <2>5, <2>12 DEF Typed
  <2>14. ListAtHome(A)'
    <3>1. AtHome(v, Hydrated(NoConfig))'
      BY <2>4, <2>5 DEF AtHome
    <3>2. IsInjective(<<v>>)
      BY DEF IsInjective
    <3>3. QED
      BY <2>7, <3>1, <3>2 DEF ListAtHome
  <2>15. SessionInv(s)'
    <3>1. ListAtHome(R.cache)' /\ ListAtHome(R.answer)'
      BY <1>1, <2>5, <2>10, <2>14, AtHomeKept DEF Sound
    <3>2. R.shown = Active(R.cache, R.chosen) /\ (R.timer => R.touched)
      BY <1>1, <2>10 DEF Sound
    <3>3. IF R.shown = NoView THEN ~R.touched ELSE AtHome(R.shown, R.local)'
      BY <1>1, <2>5, <2>10, AtHomeKept DEF Sound
    <3>4. QED
      BY <2>12, <3>1, <3>2, <3>3 DEF SessionInv
  <2>16. ASSUME NEW t \in Sessions PROVE SessionInv(t)' /\ SameChanges(sess'[t], sess[t])
    <3>1. CASE t = s
      BY <2>11, <2>12, <2>15, <3>1
    <3>2. CASE t # s
      <4>1. sess'[t] = sess[t]
        BY <2>12, <3>2
      <4>2. Sound(sess[t]) /\ sess[t].shown = Active(sess[t].cache, sess[t].chosen)
        BY SoundSession
      <4>3. QED
        BY <2>5, <4>1, <4>2, SessionInvNext DEF SameChanges
    <3>3. QED
      BY <3>1, <3>2
  <2>17. ASSUME NEW m \in net PROVE MessageInv(m)'
    <3>1. (m.op = "order") =>
             \A i \in DOMAIN m.ids \ m.left : order'[m.ids[i]] = order[m.ids[i]]
      <4>1. SUFFICES ASSUME m.op = "order", NEW i \in DOMAIN m.ids
                     PROVE  order'[m.ids[i]] = order[m.ids[i]]
        OBVIOUS
      <4>2. m.ids[i] \in minted /\ m.ids[i] \in Views
        BY <4>1, MessageTypes, ReorderList DEF MessageInv
      <4>3. order' = [order EXCEPT ![v] = 0]
        BY <2>2 DEF Inserted
      <4>4. QED
        BY <2>3, <4>2, <4>3 DEF Typed
    <3>2. QED
      BY <2>5, <3>1, MessageKept
  <2>18. QED
    BY <1>2, <2>5, <2>13, <2>16, <2>17, StepInv
<1>5. QED
  BY <1>3, <1>4

-----------------------------------------------------------------------------
(* The debounced save.                                                     *)

(* Another session's saves are what they were, and so is what it shows.    *)
LEMMA SavingElsewhere ==
    ASSUME NEW t \in Sessions, SavedOrSaving(t), sess'[t] = sess[t],
           sess[t].shown \in live' => /\ sess[t].shown \in live
                                      /\ stored'[sess[t].shown] = stored[sess[t].shown],
           \A k \in net \cup net' : (k.op = "save" /\ k.s = t) => (k \in net <=> k \in net')
    PROVE  SavedOrSaving(t)'
<1>1. SUFFICES ASSUME sess[t].touched, sess[t].clean, ~sess[t].timer, sess[t].shown \in live'
               PROVE  \/ \E k \in net' : Saving(t, k)' /\ k.cfg = sess[t].local
                      \/ stored'[sess[t].shown] = sess[t].local /\ \A k \in net' : ~Saving(t, k)'
  BY DEF SavedOrSaving
<1>2. \A k : Saving(t, k)' <=> Saving(t, k)
  BY DEF Saving
<1>3. \/ \E k \in net : Saving(t, k) /\ k.cfg = sess[t].local
      \/ stored[sess[t].shown] = sess[t].local /\ \A k \in net : ~Saving(t, k)
  BY <1>1 DEF SavedOrSaving
<1>4. \A k \in net \cup net' : Saving(t, k) => (k \in net <=> k \in net')
  BY DEF Saving
<1>5. QED
  BY <1>1, <1>2, <1>3, <1>4

LEMMA NextNumber ==
    ASSUME Typed, SavesNumbered, NEW s \in Sessions
    PROVE  LET n == 1 + Max({m.nth : m \in {k \in net : k.op = "save" /\ k.s = s}} \cup {0})
           IN  n \in Nat /\ \A m \in net : (m.op = "save" /\ m.s = s) => m.nth < n
<1> DEFINE S == {m.nth : m \in {k \in net : k.op = "save" /\ k.s = s}} \cup {0}
<1>1. PICK b \in Nat : \A m \in net : m.op = "save" => m.nth <= b
  BY DEF SavesNumbered
<1>2. \A m \in net : m.op = "save" => m.nth \in Nat
  BY MessageTypes DEF Save
<1>3. S \in SUBSET Nat /\ S # {} /\ \A k \in S : k <= b
  BY <1>1, <1>2
<1>4. \A m \in net : (m.op = "save" /\ m.s = s) => m.nth \in S
  OBVIOUS
<1> HIDE DEF S
<1>5. Max(S) \in S /\ \A k \in S : k <= Max(S)
  BY <1>3, MaxIsGreatest
<1>6. Max(S) \in Nat
  BY <1>3, <1>5
<1>7. \A m \in net : (m.op = "save" /\ m.s = s) => m.nth < 1 + Max(S)
  BY <1>2, <1>4, <1>5, <1>6
<1>8. QED
  BY <1>6, <1>7 DEF S

LEMMA TimerFiresInv ==
    ASSUME ViewInv, NEW s \in Sessions, TimerFires(s)
    PROVE  ViewInv'
<1> USE DEF ViewInv
<1>1. PICK n : n = 1 + Max({m.nth : m \in {k \in net : k.op = "save" /\ k.s = s}} \cup {0})
  OBVIOUS
<1>2. n \in Nat /\ \A m \in net : (m.op = "save" /\ m.s = s) => m.nth < n
  BY <1>1, NextNumber
<1>3. PICK m : m = [op |-> "save", s |-> s, view |-> sess[s].shown, cfg |-> sess[s].local, nth |-> n]
  OBVIOUS
<1> DEFINE R == [sess[s] EXCEPT !.timer = FALSE, !.clean = TRUE, !.sent = n]
<1>4. /\ sess[s].timer /\ sess' = [sess EXCEPT ![s] = R] /\ net' = net \cup {m}
      /\ UNCHANGED <<live, minted, order, stored, ops, lineage>>
  BY <1>1, <1>3 DEF TimerFires, Sends
<1>5. /\ sess[s] \in Session /\ Sound(sess[s])
      /\ sess[s].shown = Active(sess[s].cache, sess[s].chosen)
  BY SoundSession
<1>6. sess[s].shown \in Views /\ AtHome(sess[s].shown, sess[s].local)
  BY <1>4, <1>5 DEF Session, Sound
<1>7. m \in Save /\ m.cfg = sess[s].local
  BY <1>2, <1>5, <1>6, <1>3 DEF Save, Session
<1>8. m.op = "save" /\ m.s = s /\ m.view = sess[s].shown /\ m.nth = n
  BY <1>3
<1>9. /\ R \in Session /\ R.cache = sess[s].cache /\ R.answer = sess[s].answer
      /\ R.chosen = sess[s].chosen /\ R.sent = n
      /\ R.shown = sess[s].shown /\ R.local = sess[s].local /\ ~R.timer
      /\ R.touched = sess[s].touched
  BY <1>2, <1>5 DEF Session
<1> HIDE DEF R
<1>10. Sound(R) /\ R.shown = Active(R.cache, R.chosen)
  BY <1>5, <1>9 DEF Sound
<1>11. sess' \in [Sessions -> Session] /\ sess'[s] = R /\ \A t \in Sessions \ {s} : sess'[t] = sess[t]
  BY <1>4, <1>9 DEF Typed
<1>12. Typed'
  BY <1>4, <1>7, <1>11 DEF Typed
<1>13. Grows
  BY <1>4 DEF Grows
<1>14. \A t \in Sessions : SessionInv(t)'
  BY <1>10, <1>11, <1>13, SessionInvNext, SoundSession
<1>15. \A k \in net' : MessageInv(k)'
  <2>1. MessageInv(m)
    BY <1>6, <1>7, <1>8 DEF MessageInv
  <2>2. \A k \in net' : MessageInv(k)
    BY <1>4, <2>1
  <2>3. QED
    BY <1>4, <1>13, <2>2, MessageKept
<1>16. ViewsAtHome' /\ OrdersBounded'
  BY <1>4 DEF ViewsAtHome, OrdersBounded, AtHome
<1>17. SavesNumbered'
  <2>1. PICK b \in Nat : \A k \in net : k.op = "save" => k.nth <= b
    BY DEF SavesNumbered
  <2>2. \A k \in net : k.op = "save" => k.nth \in Nat
    BY MessageTypes DEF Save
  <2>3. n + b \in Nat /\ \A k \in net' : k.op = "save" => k.nth <= n + b
    BY <1>2, <1>4, <1>8, <2>1, <2>2
  <2>4. ASSUME NEW k \in net', NEW l \in net', k.op = "save", l.op = "save", k.s = l.s, k.nth = l.nth
        PROVE  k = l
    <3>1. ASSUME NEW j \in net, j.op = "save", j.s = s PROVE j.nth # n
      BY <1>2, <2>2, <3>1
    <3>2. CASE k = m \/ l = m
      BY <1>4, <1>8, <2>4, <3>1, <3>2
    <3>3. CASE k \in net /\ l \in net
      BY <2>4, <3>3 DEF SavesNumbered
    <3>4. QED
      BY <1>4, <3>2, <3>3
  <2>5. QED
    BY <2>3, <2>4 DEF SavesNumbered
<1>18. ASSUME NEW t \in Sessions PROVE SavedOrSaving(t)'
  <2>1. CASE t = s
    <3>1. Saving(s, m)' /\ m.cfg = sess'[s].local /\ m \in net'
      BY <1>4, <1>7, <1>8, <1>9, <1>11 DEF Saving
    <3>2. QED
      BY <2>1, <3>1 DEF SavedOrSaving
  <2>2. CASE t # s
    <3>1. sess'[t] = sess[t]
      BY <1>11, <2>2
    <3>2. \A k \in net \cup net' : (k.op = "save" /\ k.s = t) => (k \in net <=> k \in net')
      BY <1>4, <1>8, <2>2
    <3>3. QED
      BY <1>4, <3>1, <3>2, SavingElsewhere
  <2>3. QED
    BY <2>1, <2>2
<1>19. QED
  BY <1>12, <1>14, <1>15, <1>16, <1>17, <1>18

(* A save that ends, stored or lost: pages stay, but some are not clean.   *)
NoLongerClean(t) == [sess[t] EXCEPT !.clean = FALSE]

LEMMA NotClean ==
    ASSUME Typed, NEW t \in Sessions, SessionInv(t)
    PROVE  LET R == NoLongerClean(t)
           IN  /\ R \in Session /\ Sound(R) /\ R.shown = Active(R.cache, R.chosen) /\ ~R.clean
<1> DEFINE R == NoLongerClean(t)
<1>1. /\ sess[t] \in Session /\ Sound(sess[t])
      /\ sess[t].shown = Active(sess[t].cache, sess[t].chosen)
  BY SoundSession
<1>2. /\ R \in Session /\ R.cache = sess[t].cache /\ R.answer = sess[t].answer
      /\ R.chosen = sess[t].chosen /\ R.shown = sess[t].shown /\ R.local = sess[t].local
      /\ R.timer = sess[t].timer /\ R.touched = sess[t].touched /\ ~R.clean
  BY <1>1 DEF NoLongerClean, Session
<1> HIDE DEF R
<1>3. Sound(R) /\ R.shown = Active(R.cache, R.chosen)
  BY <1>1, <1>2 DEF Sound
<1>4. QED
  BY <1>2, <1>3 DEF R

LEMMA SaveEnds ==
    ASSUME ViewInv, NEW m \in net, net' = net \ {m},
           \A t \in Sessions : sess'[t] \in {sess[t], NoLongerClean(t)},
           sess' \in [Sessions -> Session],
           UNCHANGED <<live, minted, order, ops, lineage>>, stored' \in [Views -> StoredConfigs],
           \A v \in minted : AtHome(v, Hydrated(stored'[v])),
           \A t \in Sessions : SavedOrSaving(t)'
    PROVE  ViewInv'
<1> USE DEF ViewInv
<1>1. Typed' /\ Grows
  BY DEF Typed, Grows
<1>2. ASSUME NEW t \in Sessions PROVE SessionInv(t)'
  <2>1. PICK R : R = sess'[t]
    OBVIOUS
  <2>2. Sound(R) /\ R.shown = Active(R.cache, R.chosen)
    BY <2>1, NotClean, SoundSession
  <2>3. QED
    BY <1>1, <2>1, <2>2, SessionInvNext
<1>3. \A k \in net' : MessageInv(k)'
  BY <1>1, MessageKept
<1>4. ViewsAtHome' /\ OrdersBounded'
  BY DEF ViewsAtHome, OrdersBounded, AtHome
<1>5. SavesNumbered'
  BY DEF SavesNumbered
<1>6. QED
  BY <1>1, <1>2, <1>3, <1>4, <1>5

LEMMA SaveArrivesInv ==
    ASSUME ViewInv, NEW m \in net, SaveArrives(m)
    PROVE  ViewInv'
<1> USE DEF ViewInv
<1>1. /\ m.op = "save" /\ m.view \in live /\ net' = net \ {m}
      /\ stored' = [stored EXCEPT ![m.view] = m.cfg]
      /\ UNCHANGED <<live, minted, order, ops, lineage>>
  BY DEF SaveArrives
<1>2. ASSUME NEW t \in Sessions
      PROVE  sess'[t] = IF sess[t].shown = m.view /\ ~StillNewest(t, m)
                        THEN NoLongerClean(t) ELSE sess[t]
  BY DEF SaveArrives, NoLongerClean
<1>3. m \in Save /\ AtHome(m.view, m.cfg)
  BY <1>1, MessageTypes DEF MessageInv
<1>4. m.cfg \in Whole /\ m.cfg \in StoredConfigs /\ m.view \in Views
  BY <1>3 DEF Save, StoredConfigs
<1>5. \A t \in Sessions : NoLongerClean(t) \in Session /\ sess[t] \in Session
  BY NotClean DEF Typed
<1>6. sess' = [t \in Sessions |-> sess'[t]]
  BY DEF SaveArrives
<1>7. sess' \in [Sessions -> Session]
  <2>1. \A t \in Sessions : sess'[t] \in Session
    BY <1>2, <1>5
  <2>2. QED
    BY <1>6, <2>1
<1>8. stored' \in [Views -> StoredConfigs] /\ stored'[m.view] = m.cfg
  BY <1>1, <1>4 DEF Typed
<1>9. ASSUME NEW v \in minted PROVE AtHome(v, Hydrated(stored'[v]))
  <2>1. CASE v = m.view
    BY <1>3, <1>4, <1>8, <2>1, HydratedWhole DEF AtHome
  <2>2. CASE v # m.view
    BY <1>1, <2>2 DEF ViewsAtHome, Typed
  <2>3. QED
    BY <2>1, <2>2
<1>10. ASSUME NEW t \in Sessions PROVE SavedOrSaving(t)'
  <2>1. CASE sess[t].shown # m.view
    <3>1. sess'[t] = sess[t]
      BY <1>2, <2>1
    <3> DEFINE S == sess[t]
    <3>2. SUFFICES ASSUME S.touched, S.clean, ~S.timer, S.shown \in live
                   PROVE  \/ \E k \in net' : Saving(t, k)' /\ k.cfg = S.local
                          \/ stored'[S.shown] = S.local /\ \A k \in net' : ~Saving(t, k)'
      BY <1>1, <3>1 DEF SavedOrSaving
    <3>3. \A k : Saving(t, k)' <=> Saving(t, k)
      BY <3>1 DEF Saving
    <3>4. \/ \E k \in net : Saving(t, k) /\ k.cfg = S.local
          \/ stored[S.shown] = S.local /\ \A k \in net : ~Saving(t, k)
      BY <3>2 DEF SavedOrSaving
    <3>5. stored'[S.shown] = stored[S.shown]
      BY <1>1, <2>1, <3>2 DEF Typed
    <3>6. ~Saving(t, m)
      BY <2>1 DEF Saving
    <3>7. QED
      BY <1>1, <3>3, <3>4, <3>5, <3>6
  <2>2. CASE sess[t].shown = m.view /\ ~StillNewest(t, m)
    <3>1. ~sess'[t].clean
      BY <1>2, <2>2, NotClean
    <3>2. QED
      BY <3>1 DEF SavedOrSaving
  <2>3. CASE sess[t].shown = m.view /\ StillNewest(t, m)
    <3>1. sess'[t] = sess[t]
      BY <1>2, <2>3
    <3> DEFINE S == sess[t]
    <3>2. SUFFICES ASSUME S.touched, S.clean, ~S.timer, S.shown \in live
                   PROVE  \/ \E k \in net' : Saving(t, k)' /\ k.cfg = S.local
                          \/ stored'[S.shown] = S.local /\ \A k \in net' : ~Saving(t, k)'
      BY <1>1, <3>1 DEF SavedOrSaving
    <3>3. \A k : Saving(t, k)' <=> Saving(t, k)
      BY <3>1 DEF Saving
    <3>4. \E k \in net : Saving(t, k)
      BY <2>3 DEF StillNewest, Saving
    <3>5. PICK k \in net : Saving(t, k) /\ k.cfg = S.local
      BY <3>2, <3>4 DEF SavedOrSaving
    <3>6. CASE k = m
      <4>1. \A j \in net : Saving(t, j) => j = m
        BY <3>5, <3>6 DEF Saving, SavesNumbered
      <4>2. stored'[S.shown] = S.local
        BY <1>8, <2>3, <3>5, <3>6
      <4>3. QED
        BY <1>1, <3>3, <4>1, <4>2
    <3>7. CASE k # m
      BY <1>1, <3>3, <3>5, <3>7
    <3>8. QED
      BY <3>6, <3>7
  <2>4. QED
    BY <2>1, <2>2, <2>3
<1>11. \A t \in Sessions : sess'[t] \in {sess[t], NoLongerClean(t)}
  BY <1>2
<1>12. QED
  BY <1>1, <1>7, <1>8, <1>9, <1>10, <1>11, SaveEnds

LEMMA LostSaveInv ==
    ASSUME ViewInv, NEW m \in net, Lost(m), m.op = "save"
    PROVE  ViewInv'
<1> USE DEF ViewInv
<1>1. m \in Save /\ m.s \in Sessions
  BY MessageTypes
<1>2. /\ net' = net \ {m} /\ UNCHANGED <<live, minted, order, stored, ops, lineage>>
      /\ sess' = IF m.nth = sess[m.s].sent
                 THEN [sess EXCEPT ![m.s] = NoLongerClean(m.s)] ELSE sess
  BY DEF Lost, NoLongerClean
<1>3. \A t \in Sessions : NoLongerClean(t) \in Session
  BY NotClean
<1>4. /\ sess' \in [Sessions -> Session]
      /\ \A t \in Sessions : sess'[t] = IF t = m.s /\ m.nth = sess[t].sent
                                        THEN NoLongerClean(t) ELSE sess[t]
  BY <1>1, <1>2, <1>3 DEF Typed
<1>5. ASSUME NEW t \in Sessions PROVE SavedOrSaving(t)'
  <2>1. CASE t = m.s /\ m.nth = sess[t].sent
    <3>1. ~sess'[t].clean
      BY <1>4, <2>1, NotClean
    <3>2. QED
      BY <3>1 DEF SavedOrSaving
  <2>2. CASE ~(t = m.s /\ m.nth = sess[t].sent)
    <3>1. sess'[t] = sess[t]
      BY <1>4, <2>2
    <3> DEFINE S == sess[t]
    <3>2. SUFFICES ASSUME S.touched, S.clean, ~S.timer, S.shown \in live
                   PROVE  \/ \E k \in net' : Saving(t, k)' /\ k.cfg = S.local
                          \/ stored'[S.shown] = S.local /\ \A k \in net' : ~Saving(t, k)'
      BY <1>2, <3>1 DEF SavedOrSaving
    <3>3. \A k : Saving(t, k)' <=> Saving(t, k)
      BY <3>1 DEF Saving
    <3>4. \/ \E k \in net : Saving(t, k) /\ k.cfg = S.local
          \/ stored[S.shown] = S.local /\ \A k \in net : ~Saving(t, k)
      BY <3>2 DEF SavedOrSaving
    <3>5. ~Saving(t, m)
      BY <2>2 DEF Saving
    <3>6. QED
      BY <1>2, <3>3, <3>4, <3>5
  <2>3. QED
    BY <2>1, <2>2
<1>6. \A v \in minted : AtHome(v, Hydrated(stored'[v]))
  BY <1>2 DEF ViewsAtHome
<1>7. stored' \in [Views -> StoredConfigs]
  BY <1>2 DEF Typed
<1>8. \A t \in Sessions : sess'[t] \in {sess[t], NoLongerClean(t)}
  BY <1>4
<1>9. QED
  BY <1>2, <1>4, <1>5, <1>6, <1>7, <1>8, SaveEnds

-----------------------------------------------------------------------------
(* The invariant.                                                          *)

LEMMA InvInit == Init => ViewInv
<1> SUFFICES ASSUME Init PROVE ViewInv
  OBVIOUS
<1> USE DEF Init
<1>1. /\ DOMAIN Opened = 1 .. Len(Opened) /\ Len(Opened) \in Nat /\ IsInjective(Opened)
      /\ Opened \in Seq(Views) /\ Range(Opened) \subseteq Views
  BY OpenedAssumption, LenProperties, ElementOfSeq DEF Range
<1>2. ASSUME NEW v \in live PROVE Place(Opened, v) \in 1 .. Len(Opened)
  BY <1>1, <1>2, PlaceOf
<1>3. order \in [Views -> Nat] /\ \A v \in Views : order[v] <= Len(Opened)
  <2>1. ASSUME NEW v \in Views PROVE order[v] \in Nat /\ order[v] <= Len(Opened)
    <3>1. order[v] = IF v \in live THEN Place(Opened, v) - 1 ELSE 0
      OBVIOUS
    <3>2. QED
      BY <1>1, <1>2, <3>1
  <2>2. order = [v \in Views |-> order[v]]
    OBVIOUS
  <2>3. QED
    BY <2>1, <2>2
<1>4. PICK p \in Presets, look \in Looks :
        stored = [v \in Views |-> IF v = Opened[1] THEN LeftWith(p, look) ELSE NoConfig]
  OBVIOUS
<1>5. LeftWith(p, look) \in Whole /\ LeftWith(p, look).from = {}
  <2> DEFINE a == WithPreset(Default, p, look)
             b == [a EXCEPT !.look = look]
  <2>1. a \in Whole /\ a.from = {} /\ p \in DOMAIN a.presets
    BY DefaultWhole, PresetAdded
  <2> HIDE DEF a
  <2>2. b \in Whole /\ b.from = {}
    BY <2>1, LookChanged
  <2>3. b.presets = a.presets
    BY <2>1 DEF Whole, Configs
  <2> HIDE DEF b
  <2>4. [b EXCEPT !.active = p] \in Whole /\ [b EXCEPT !.active = p].from = {}
    BY <2>1, <2>2, <2>3, ActiveChanged
  <2>5. LeftWith(p, look) = [b EXCEPT !.active = p]
    BY <2>1 DEF LeftWith, a, b, Whole, Configs
  <2>6. QED
    BY <2>4, <2>5
<1>6. stored \in [Views -> StoredConfigs]
  BY <1>4, <1>5 DEF StoredConfigs
<1>7. ASSUME NEW v \in Views PROVE v \in lineage[v] /\ Hydrated(stored[v]).from = {}
  BY <1>4, <1>5, DefaultWhole DEF Hydrated
<1>8. Opening \in Session /\ Sound(Opening) /\ Opening.shown = Active(Opening.cache, Opening.chosen)
      /\ ~Opening.touched
  <2>1. /\ Opening \in Session /\ Opening.cache = <<>> /\ Opening.answer = <<>>
        /\ Opening.shown = NoView /\ ~Opening.timer /\ ~Opening.touched
    BY EmptyListAtHome, DefaultWhole DEF Opening, Session
  <2>2. QED
    BY <2>1, EmptyListAtHome DEF Sound
<1>9. Typed
  <2>1. ops \in 0 .. MaxOps /\ lineage \in [Views -> SUBSET Views] /\ net = {}
    BY OpsAssumption
  <2>2. sess \in [Sessions -> Session]
    BY <1>8
  <2>3. live = minted /\ minted \subseteq Views
    BY <1>1
  <2>4. QED
    BY <1>3, <1>6, <2>1, <2>2, <2>3 DEF Typed
<1>10. \A s \in Sessions : SessionInv(s) /\ SavedOrSaving(s)
  <2>1. \A s \in Sessions : sess[s] = Opening
    OBVIOUS
  <2>2. QED
    BY <1>8, <2>1 DEF SessionInv, SavedOrSaving, Sound
<1>11. ViewsAtHome
  <2>1. IsFiniteSet(1 .. Len(Opened))
    BY <1>1, FS_Interval
  <2>2. Opened \in Surjection(1 .. Len(Opened), live)
    BY <1>1 DEF Range, Surjection
  <2>3. IsFiniteSet(live)
    BY <2>1, <2>2, FS_Surjection
  <2>4. \A v \in minted : v \in lineage[v] /\ AtHome(v, Hydrated(stored[v]))
    BY <1>1, <1>7 DEF AtHome
  <2>5. QED
    BY <2>3, <2>4 DEF ViewsAtHome
<1>12. OrdersBounded
  BY <1>1, <1>3 DEF OrdersBounded
<1>13. SavesNumbered
  <2>1. 0 \in Nat /\ net = {}
    OBVIOUS
  <2>2. QED
    BY <2>1 DEF SavesNumbered
<1>14. QED
  BY <1>9, <1>10, <1>11, <1>12, <1>13 DEF ViewInv

LEMMA InvNext == ViewInv /\ [Next]_vars => ViewInv'
<1> SUFFICES ASSUME ViewInv, [Next]_vars PROVE ViewInv'
  OBVIOUS
<1>1. ASSUME NEW s \in Sessions, User(s) PROVE ViewInv'
  <2>1. CASE Toolbar(s) \/ EditRest(s) \/ PresetsPage(s)
    BY <2>1, ToolbarInv
  <2>2. CASE TabBar(s)
    BY <2>2, SwitchViewInv, AddViewInv, MoveViewInv DEF TabBar
  <2>3. CASE LayoutPage(s)
    BY <2>3, AddViewInv, DeleteViewInv, MoveViewInv DEF LayoutPage
  <2>4. CASE Reload(s)
    BY <2>4, ReloadInv
  <2>5. QED
    BY <1>1, <2>1, <2>2, <2>3, <2>4 DEF User
<1>2. ASSUME NEW s \in Sessions, TimerFires(s) PROVE ViewInv'
  BY <1>2, TimerFiresInv
<1>3. ASSUME NEW s \in Sessions, ListViews(s) \/ ListArrives(s) \/ ListFails(s) \/ Refocus(s)
      PROVE  ViewInv'
  BY <1>3, ListViewsInv, ListArrivesInv, ListAskedInv
<1>4. ASSUME NEW m \in net, Delivered(m) PROVE ViewInv'
  BY <1>4, SaveArrivesInv, AddArrivesInv, ListChangedInv, OrderArrivesInv DEF Delivered
<1>5. ASSUME NEW m \in net, Lost(m) PROVE ViewInv'
  BY <1>5, LostInv, LostSaveInv
<1>6. CASE UNCHANGED vars
  BY <1>6, SMTT(60) DEF ViewInv, Typed, SessionInv, MessageInv, ReorderInv, ViewsAtHome, OrdersBounded,
              SavesNumbered, SavedOrSaving, Saving, ListAtHome, AtHome, vars
<1>7. QED
  BY <1>1, <1>2, <1>3, <1>4, <1>5, <1>6 DEF Next

(* Whatever the users of any number of tabs do, and whatever the server    *)
(* and the network do to their requests, settings stay whole and in their  *)
(* view, lists name each view once, drags put views where they were meant  *)
(* to go, and the newest save of a tab is stored or still under way.       *)
THEOREM Invariant == Spec => []ViewInv
<1>1. Init => ViewInv
  BY InvInit
<1>2. ViewInv /\ [Next]_vars => ViewInv'
  BY InvNext
<1>3. QED
  BY <1>1, <1>2, PTL DEF Spec

-----------------------------------------------------------------------------
(* What the invariant gives.                                               *)

(* Every part of the state has its shape: whole settings, and the view a   *)
(* tab shows is the one DatabaseView picks from its list.                  *)
THEOREM TypeCorrect == Spec => []TypeOK
<1>1. ViewInv => TypeOK
  <2>1. SUFFICES ASSUME ViewInv PROVE TypeOK
    OBVIOUS
  <2>2. \A s \in Sessions : sess[s] \in Session /\ SessionInv(s)
    BY <2>1 DEF ViewInv, Typed
  <2>3. ASSUME NEW s \in Sessions
        PROVE  /\ sess[s].local \in Configs /\ sess[s].shown = Active(sess[s].cache, sess[s].chosen)
               /\ sess[s].fetch \in {"idle", "asked", "answered"}
               /\ sess[s].timer => sess[s].touched
    BY <2>2 DEF Session, SessionInv, Whole
  <2>4. \A v \in Views : stored[v] \in Configs \cup {NoConfig}
    BY <2>1 DEF ViewInv, Typed, StoredConfigs, Whole
  <2>5. QED
    BY <2>1, <2>3, <2>4 DEF ViewInv, Typed, TypeOK
<1>2. QED
  BY <1>1, Invariant, PTL

(* The preset that stored or shown settings call active is one of their    *)
(* presets: applying, deleting, copying and saving whole configs keep it.  *)
THEOREM PresetsExist == Spec => []ActivePresetExists
<1>1. ViewInv => ActivePresetExists
  <2>1. SUFFICES ASSUME ViewInv,
                        NEW c \in {Hydrated(stored[v]) : v \in Views}
                                  \cup {sess[s].local : s \in Sessions}
                                  \cup {m.cfg : m \in {n \in net : n.op = "save"}}
                 PROVE  c \in Whole
    BY DEF ActivePresetExists, Whole
  <2>2. \A v \in Views : Hydrated(stored[v]) \in Whole
    BY <2>1, HydratedWhole DEF ViewInv, Typed
  <2>3. \A s \in Sessions : sess[s].local \in Whole
    BY <2>1 DEF ViewInv, Typed, Session
  <2>4. \A m \in net : m.op = "save" => m.cfg \in Whole
    BY <2>1, MessageTypes DEF ViewInv, Save
  <2>5. QED
    BY <2>1, <2>2, <2>3, <2>4
<1>2. QED
  BY <1>1, Invariant, PTL

(* The debounced save never carries the settings of one view into another, *)
(* whichever view is shown when the timer fires or the request arrives.    *)
THEOREM SettingsStay == Spec => []SettingsStayInTheirView
<1>1. ViewInv => SettingsStayInTheirView
  BY DEF ViewInv, Typed, ViewsAtHome, AtHome, SettingsStayInTheirView
<1>2. QED
  BY <1>1, Invariant, PTL

(* A tab with no save left to start or to arrive has its settings stored,  *)
(* unless its save failed, was overtaken, or was overwritten by another    *)
(* tab.                                                                    *)
THEOREM QuietIsStored == Spec => []QuietMeansStored
<1>1. ViewInv => QuietMeansStored
  <2>1. SUFFICES ASSUME ViewInv, NEW s \in Sessions,
                        sess[s].touched, sess[s].clean, ~sess[s].timer, sess[s].shown \in live,
                        ~\E m \in net : m.op = "save" /\ m.s = s /\ m.view = sess[s].shown
                 PROVE  stored[sess[s].shown] = sess[s].local
    BY DEF QuietMeansStored
  <2>2. \A m \in net : ~Saving(s, m)
    BY <2>1 DEF Saving
  <2>3. QED
    BY <2>1, <2>2 DEF ViewInv, SavedOrSaving
<1>2. QED
  BY <1>1, Invariant, PTL

(* The order column names one list only, once all PATCHes of a drag are    *)
(* in: the one that was sent.                                              *)
LEMMA OnlyList ==
    ASSUME Typed, ViewsAtHome, NEW ids \in Seq(Views), IsInjective(ids), Range(ids) = live,
           \A i \in DOMAIN ids : order[ids[i]] = i - 1, NEW q \in Lists
    PROVE  q = ids
<1> DEFINE n == Len(ids)
<1>1. n \in Nat /\ DOMAIN ids = 1 .. n /\ \A v \in live : \E i \in 1 .. n : ids[i] = v
  BY LenProperties DEF Range
<1>2. Cardinality(live) = n
  <2>1. ids \in [1 .. n -> live]
    BY <1>1 DEF Range
  <2>2. ids \in Bijection(1 .. n, live)
    BY <1>1, <2>1 DEF IsInjective, Bijection, Injection, Surjection
  <2>3. QED
    BY <1>1, <2>2, FS_CountingElements DEF ExistsBijection
<1> HIDE DEF n
<1>3. /\ q \in Seq(Views) /\ IsInjective(q) /\ DOMAIN q = 1 .. n /\ Len(q) = n
      /\ \A i \in 1 .. n : q[i] \in live
  BY <1>2, ListOfViews
<1> DEFINE p(i) == order[q[i]] + 1
<1>4. ASSUME NEW i \in 1 .. n PROVE p(i) \in 1 .. n /\ ids[p(i)] = q[i]
  <2>1. PICK k \in 1 .. n : ids[k] = q[i]
    BY <1>1, <1>3
  <2>2. order[q[i]] = k - 1
    BY <1>1, <2>1
  <2>3. p(i) = k
    BY <2>2
  <2>4. QED
    BY <2>1, <2>3
<1>5. ASSUME NEW i \in 1 .. n, NEW j \in 1 .. n, i < j PROVE p(i) < p(j)
  <2>1. order[q[i]] <= order[q[j]]
    BY <1>3, <1>5 DEF Lists
  <2>2. q[i] # q[j]
    <3>1. i # j /\ i \in DOMAIN q /\ j \in DOMAIN q
      BY <1>1, <1>3, <1>5
    <3>2. QED
      BY <1>3, <3>1 DEF IsInjective
  <2>3. p(i) # p(j)
    BY <1>4, <2>2
  <2>4. order[q[i]] \in Nat /\ order[q[j]] \in Nat
    BY <1>3 DEF Typed
  <2>5. QED
    BY <2>1, <2>3, <2>4
<1> HIDE DEF p
<1>6. ASSUME NEW i \in 1 .. n PROVE p(i) >= i
  <2> DEFINE S == {j \in 1 .. n : p(j) < j}
  <2>1. p(i) \in Int /\ i \in Int
    BY <1>1, <1>4
  <2>2. SUFFICES ASSUME p(i) < i PROVE FALSE
    BY <2>1
  <2>3. i \in S
    BY <2>2
  <2>4. S \in SUBSET Nat
    BY <1>1
  <2>5. PICK j \in S : \A k \in S : j <= k
    BY <2>3, <2>4, HasLeast
  <2>6. j \in 1 .. n /\ p(j) < j /\ p(j) \in 1 .. n
    BY <1>4, <2>5
  <2>7. j - 1 \in 1 .. n /\ ~(j <= j - 1) /\ j - 1 < j
    BY <1>1, <2>6
  <2>8. p(j - 1) < p(j) /\ ~(p(j - 1) < j - 1) /\ p(j - 1) \in 1 .. n
    BY <1>4, <1>5, <2>5, <2>6, <2>7
  <2>9. QED
    BY <1>1, <2>6, <2>8
<1>7. ASSUME NEW i \in 1 .. n PROVE p(i) <= i
  <2> DEFINE S == {j \in 1 .. n : p(j) > j}
  <2>1. p(i) \in Int /\ i \in Int
    BY <1>1, <1>4
  <2>2. SUFFICES ASSUME p(i) > i PROVE FALSE
    BY <2>1
  <2>3. i \in S
    BY <2>2
  <2>4. S \in SUBSET Nat /\ \A k \in S : k <= n
    BY <1>1
  <2>5. PICK j \in S : \A k \in S : k <= j
    BY <1>1, <2>3, <2>4, HasGreatest
  <2>6. j \in 1 .. n /\ p(j) > j /\ p(j) \in 1 .. n
    BY <1>4, <2>5
  <2>7. j + 1 \in 1 .. n /\ ~(j + 1 <= j) /\ j < j + 1
    BY <1>1, <2>6
  <2>8. p(j) < p(j + 1) /\ ~(p(j + 1) > j + 1) /\ p(j + 1) \in 1 .. n
    BY <1>4, <1>5, <2>5, <2>6, <2>7
  <2>9. QED
    BY <1>1, <2>6, <2>8
<1>8. ASSUME NEW i \in 1 .. n PROVE q[i] = ids[i]
  <2>1. p(i) \in 1 .. n /\ ids[p(i)] = q[i]
    BY <1>4
  <2>2. p(i) = i
    BY <1>1, <1>6, <1>7, <2>1
  <2>3. QED
    BY <2>1, <2>2
<1>9. Len(q) = Len(ids) /\ \A i \in 1 .. Len(q) : q[i] = ids[i]
  BY <1>3, <1>8 DEF n
<1>10. QED
  BY <1>3, <1>9, SeqEqual

(* A view dragged in the tab bar or the sidebar ends up where it was       *)
(* dropped, the others as they were, in every list the server can give,    *)
(* when all its PATCHes went through and nothing overlapped them.          *)
THEOREM DropsLand == Spec => []DroppedBeforeTarget
<1>1. ViewInv => DroppedBeforeTarget
  <2>1. SUFFICES ASSUME ViewInv, NEW m \in net, m.op = "order", m.left = {}, m.good, m.alone,
                        Range(m.ids) = live, NEW q \in Lists
                 PROVE  /\ Without(q, m.a) = Without(m.was, m.a)
                        /\ \E i \in DOMAIN q : /\ q[i] = m.a
                                               /\ IF m.b = NoView THEN i = 1
                                                  ELSE i < Len(q) /\ q[i + 1] = m.b
    BY DEF DroppedBeforeTarget
  <2>2. m \in Reorder /\ ReorderInv(m)
    BY <2>1, MessageTypes DEF ViewInv, MessageInv
  <2>3. /\ m.ids \in Seq(Views) /\ IsInjective(m.ids)
        /\ Without(m.ids, m.a) = Without(m.was, m.a)
        /\ \E i \in DOMAIN m.ids : /\ m.ids[i] = m.a
                                   /\ IF m.b = NoView THEN i = 1
                                      ELSE i < Len(m.ids) /\ m.ids[i + 1] = m.b
    BY <2>2, ReorderList
  <2>4. \A i \in DOMAIN m.ids : order[m.ids[i]] = i - 1
    BY <2>1, <2>2 DEF ReorderInv
  <2>5. q = m.ids
    BY <2>1, <2>3, <2>4, OnlyList DEF ViewInv
  <2>6. QED
    BY <2>3, <2>5
<1>2. QED
  BY <1>1, Invariant, PTL

=============================================================================
