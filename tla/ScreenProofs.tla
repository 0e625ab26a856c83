------------------------------ MODULE ScreenProofs ------------------------------
(***************************************************************************)
(* Theorems about what a browser tab shows: the documents edited in it,    *)
(* the rows a table has loaded and its columns, the dates of its timeline  *)
(* and calendar, the sites, the grid with the cells edited in it, and the  *)
(* operators a filter offers.                                              *)
(***************************************************************************)
EXTENDS DocumentEditing, RowClient, DateViews, SiteStudio, Columns, TableGrid, RowViews,
        BoundedSets, FiniteSetTheorems, SequenceTheorems, TLAPS

-----------------------------------------------------------------------------
(* Documents.                                                              *)

DeDocuments == [text : DeTexts, version : Nat, stamp : Nat, titled : Nat]
DeSaves == [nth : Nat, ed : DeEditors, text : DeTexts, expected : Nat,
            step : {"sent", "checked", "written", "answered", "refused"}]
DeStates == [doc : DeDocuments, cache : [DeTabs -> DeDocuments \cup {Null}],
             fetch : [DeTabs -> DeDocuments \cup {Closed, Asked}],
             ed : [DeEditors -> DeMounted \cup {Closed}], net : SUBSET DeSaves, sent : Nat,
             overlap : BOOLEAN, losses : Nat, ops : Nat]

(* Whoever holds version v has seen what is stored, if that is version v.  *)
Knows(s, v, seen) == v \leq s.doc.version /\ (v = s.doc.version => s.doc.stamp \in seen)

(* No two saves are between their check and their answer.                  *)
OneAtATime(s) == \A m, n \in s.net : m.step \in {"checked", "written"} /\ n.step \in {"checked", "written"}
                                       => m = n

(* Every copy of the document, in a cache, an answer, an editor or a save. *)
CopiesKnow(s) ==
    /\ \A t \in DeTabs : /\ s.cache[t] # Null => Knows(s, s.cache[t].version, {s.cache[t].stamp})
                         /\ s.fetch[t] \notin {Closed, Asked} =>
                              Knows(s, s.fetch[t].version, {s.fetch[t].stamp})
    /\ \A e \in DeEditors : s.ed[e] # Closed => Knows(s, s.ed[e].version, s.ed[e].seen)

SaveKnows(s, m) ==
    /\ m.step \in {"sent", "answered"} => Knows(s, m.expected, s.ed[m.ed].seen)
    /\ m.step = "checked" => m.expected = s.doc.version
    /\ m.step \in {"checked", "written"} => s.doc.stamp \in s.ed[m.ed].seen

DeSound(s) ==
    /\ s \in DeStates
    /\ \A m \in s.net : s.ed[m.ed] # Closed
    /\ ~s.overlap => OneAtATime(s) /\ CopiesKnow(s) /\ \A m \in s.net : SaveKnows(s, m)

DeInv == DeSound(de)


(* What keeps the invariant when the stored text stays: what editors have  *)
(* seen stays seen, and new saves and copies know it.                      *)
LEMMA TextStays ==
    ASSUME NEW s, NEW t, DeSound(s), t \in DeStates,
           t.doc.version = s.doc.version, t.doc.stamp = s.doc.stamp, s.overlap => t.overlap,
           \A e \in DeEditors : s.ed[e] # Closed => t.ed[e] # Closed /\ s.ed[e].seen \subseteq t.ed[e].seen,
           ~s.overlap /\ ~t.overlap => OneAtATime(t) /\ CopiesKnow(t),
           \A m \in t.net : m \in s.net \/ (t.ed[m.ed] # Closed /\ (~s.overlap /\ ~t.overlap => SaveKnows(t, m)))
    PROVE  DeSound(t)
<1>1. s \in DeStates
  BY DEF DeSound
<1>2. \A m \in s.net : m.ed \in DeEditors
  BY <1>1 DEF DeStates, DeSaves
<1>3. \A m \in t.net : t.ed[m.ed] # Closed
  BY <1>2 DEF DeSound
<1>4. ASSUME ~t.overlap, NEW m \in t.net PROVE SaveKnows(t, m)
  <2>1. ~s.overlap
    BY <1>4
  <2>2. CASE m \in s.net
    <3>1. SaveKnows(s, m) /\ s.ed[m.ed].seen \subseteq t.ed[m.ed].seen
      BY <1>2, <2>1, <2>2 DEF DeSound
    <3> QED
      BY <3>1 DEF SaveKnows, Knows
  <2>3. CASE m \notin s.net
    BY <1>4, <2>1, <2>3
  <2> QED
    BY <2>2, <2>3
<1>5. ~t.overlap => OneAtATime(t) /\ CopiesKnow(t)
  OBVIOUS
<1>6. QED
  BY <1>3, <1>4, <1>5 DEF DeSound

LEMMA UserDoesSound ==
    ASSUME NEW s, DeSound(s), s.ops = de.ops, UserDoes(s)
    PROVE  DeInv'
<1> DEFINE t == [s EXCEPT !.ops = @ - 1]
<1>1. s \in DeStates /\ s.ops > 0
  BY DEF DeSound, UserDoes
<1>2. s.ops - 1 \in Nat
  <2>1. s.ops \in Nat
    BY <1>1 DEF DeStates
  <2> QED
    BY <1>1, <2>1
<1>3. /\ t.doc = s.doc /\ t.cache = s.cache /\ t.fetch = s.fetch /\ t.ed = s.ed /\ t.net = s.net
      /\ t.overlap = s.overlap /\ t \in DeStates
  BY <1>1, <1>2 DEF DeStates
<1>4. de' = t
  BY DEF UserDoes
<1> HIDE DEF t
<1>5. ~s.overlap => OneAtATime(t) /\ CopiesKnow(t)
  BY <1>3 DEF DeSound, OneAtATime, CopiesKnow, Knows
<1>6. DeSound(t)
  BY <1>3, <1>5, TextStays
<1>7. QED
  BY <1>4, <1>6 DEF DeInv

(* A page or an editor changes, and what it changes to knows.              *)
LEMMA PageChanges ==
    ASSUME NEW s, DeSound(s),
           NEW cache \in [DeTabs -> DeDocuments \cup {Null}],
           NEW fetch \in [DeTabs -> DeDocuments \cup {Closed, Asked}],
           NEW ed \in [DeEditors -> DeMounted \cup {Closed}],
           \A e \in DeEditors : s.ed[e] # Closed => ed[e] # Closed /\ s.ed[e].seen \subseteq ed[e].seen,
           ~s.overlap =>
             /\ \A t \in DeTabs : /\ cache[t] # Null => Knows(s, cache[t].version, {cache[t].stamp})
                                  /\ fetch[t] \notin {Closed, Asked} =>
                                       Knows(s, fetch[t].version, {fetch[t].stamp})
             /\ \A e \in DeEditors : ed[e] # Closed => Knows(s, ed[e].version, ed[e].seen)
    PROVE  LET t == [s EXCEPT !.cache = cache, !.fetch = fetch, !.ed = ed]
           IN DeSound(t) /\ t.ops = s.ops
<1> DEFINE t == [s EXCEPT !.cache = cache, !.fetch = fetch, !.ed = ed]
<1>1. s \in DeStates
  BY DEF DeSound
<1>2. /\ t.doc = s.doc /\ t.cache = cache /\ t.fetch = fetch /\ t.ed = ed /\ t.net = s.net
      /\ t.overlap = s.overlap /\ t.ops = s.ops /\ t \in DeStates
  BY <1>1 DEF DeStates
<1> HIDE DEF t
<1>3. ~s.overlap => OneAtATime(t)
  BY <1>2 DEF DeSound, OneAtATime
<1>4. ~s.overlap => CopiesKnow(t)
  BY <1>2 DEF CopiesKnow, Knows
<1>5. DeSound(t)
  BY <1>2, <1>3, <1>4, TextStays
<1>6. QED
  BY <1>2, <1>5 DEF t

(* What the invariant says of what is on the page.                         *)
LEMMA PageTypes ==
    ASSUME DeInv
    PROVE  /\ de \in DeStates /\ de.cache \in [DeTabs -> DeDocuments \cup {Null}]
           /\ de.fetch \in [DeTabs -> DeDocuments \cup {Closed, Asked}]
           /\ de.ed \in [DeEditors -> DeMounted \cup {Closed}]
           /\ de = [de EXCEPT !.cache = de.cache, !.fetch = de.fetch, !.ed = de.ed]
           /\ ~de.overlap => CopiesKnow(de) /\ OneAtATime(de)
BY DEF DeInv, DeSound, DeStates

LEMMA MountedKnows ==
    ASSUME NEW s, NEW t \in DeTabs, NEW d \in DeDocuments
    PROVE  /\ MountedEditor(t, d) \in DeMounted
           /\ Knows(s, d.version, {d.stamp}) =>
                Knows(s, MountedEditor(t, d).version, MountedEditor(t, d).seen)
<1>1. MountedEditor(t, d) \in DeMounted
  BY DEF MountedEditor, DeMounted, DeDocuments
<1>2. QED
  BY <1>1 DEF MountedEditor


LEMMA OpenDocumentInv ==
    ASSUME DeInv, NEW t \in DeTabs, OpenDocument(t)
    PROVE  DeInv'
<1>1. CASE de.cache[t] = Null
  <2> DEFINE f == [de.fetch EXCEPT ![t] = Asked]
  <2> DEFINE s == [de EXCEPT !.cache = de.cache, !.fetch = f, !.ed = de.ed]
  <2>1. f \in [DeTabs -> DeDocuments \cup {Closed, Asked}]
    BY PageTypes
  <2>2. UserDoes(s)
    BY <1>1, PageTypes DEF OpenDocument
  <2>3. ~de.overlap => /\ \A v \in DeTabs : f[v] \notin {Closed, Asked} => Knows(de, f[v].version, {f[v].stamp})
                       /\ \A v \in DeTabs : de.cache[v] # Null => Knows(de, de.cache[v].version, {de.cache[v].stamp})
                       /\ \A e \in DeEditors : de.ed[e] # Closed => Knows(de, de.ed[e].version, de.ed[e].seen)
    BY PageTypes DEF CopiesKnow
  <2> HIDE DEF f
  <2>4. DeSound(s)
    BY <2>1, <2>3, PageTypes, PageChanges DEF DeInv
  <2>5. s.ops = de.ops
    BY PageTypes DEF DeStates
  <2> QED
    BY <2>2, <2>4, <2>5, UserDoesSound
<1>2. CASE de.cache[t] # Null
  <2>1. PICK e \in Unused, fetch \in {Closed, Asked} :
          UserDoes([de EXCEPT !.ed[e] = MountedEditor(t, de.cache[t]), !.fetch[t] = fetch])
    BY <1>2 DEF OpenDocument
  <2> DEFINE f == [de.fetch EXCEPT ![t] = fetch]
  <2> DEFINE d == [de.ed EXCEPT ![e] = MountedEditor(t, de.cache[t])]
  <2> DEFINE s == [de EXCEPT !.cache = de.cache, !.fetch = f, !.ed = d]
  <2>2. e \in DeEditors /\ de.ed[e] = Closed
    BY DEF Unused
  <2>3. de.cache[t] \in DeDocuments
    BY <1>2, PageTypes
  <2>4. f \in [DeTabs -> DeDocuments \cup {Closed, Asked}] /\ d \in [DeEditors -> DeMounted \cup {Closed}]
    BY <2>3, PageTypes, MountedKnows
  <2>5. UserDoes(s)
    <3>1. [de EXCEPT !.ed[e] = MountedEditor(t, de.cache[t]), !.fetch[t] = fetch] = s
      BY PageTypes DEF DeStates
    <3> QED
      BY <2>1, <3>1
  <2>6. ~de.overlap => \A v \in DeTabs : f[v] \notin {Closed, Asked} => Knows(de, f[v].version, {f[v].stamp})
    BY PageTypes DEF CopiesKnow
  <2>7. ~de.overlap => \A c \in DeEditors : d[c] # Closed => Knows(de, d[c].version, d[c].seen)
    <3>1. ~de.overlap => Knows(de, d[e].version, d[e].seen)
      <4>1. d[e] = MountedEditor(t, de.cache[t])
        BY <2>2, PageTypes
      <4>2. ~de.overlap => Knows(de, de.cache[t].version, {de.cache[t].stamp})
        BY <1>2, PageTypes DEF CopiesKnow
      <4> QED
        BY <2>3, <4>1, <4>2, MountedKnows
    <3> QED
      BY <3>1, PageTypes DEF CopiesKnow
  <2>8. ~de.overlap => \A v \in DeTabs : de.cache[v] # Null => Knows(de, de.cache[v].version, {de.cache[v].stamp})
    BY PageTypes DEF CopiesKnow
  <2>9. \A c \in DeEditors : de.ed[c] # Closed => d[c] # Closed /\ de.ed[c].seen \subseteq d[c].seen
    BY <2>2, PageTypes
  <2> HIDE DEF f, d
  <2>10. DeSound(s)
    BY <2>4, <2>6, <2>7, <2>8, <2>9, PageTypes, PageChanges DEF DeInv
  <2>11. s.ops = de.ops
    BY PageTypes DEF DeStates
  <2> QED
    BY <2>5, <2>10, <2>11, UserDoesSound
<1>3. QED
  BY <1>1, <1>2

LEMMA ServeDocumentInv ==
    ASSUME DeInv, NEW t \in DeTabs, ServeDocument(t)
    PROVE  DeInv'
<1> DEFINE f == [de.fetch EXCEPT ![t] = de.doc]
<1> DEFINE s == [de EXCEPT !.cache = de.cache, !.fetch = f, !.ed = de.ed]
<1>1. f \in [DeTabs -> DeDocuments \cup {Closed, Asked}]
  BY PageTypes DEF DeStates
<1>2. de' = s
  BY PageTypes DEF ServeDocument
<1>3. Knows(de, de.doc.version, {de.doc.stamp})
  BY PageTypes DEF Knows, DeStates, DeDocuments
<1>4. ~de.overlap => /\ \A v \in DeTabs : f[v] \notin {Closed, Asked} => Knows(de, f[v].version, {f[v].stamp})
                     /\ \A v \in DeTabs : de.cache[v] # Null => Knows(de, de.cache[v].version, {de.cache[v].stamp})
                     /\ \A e \in DeEditors : de.ed[e] # Closed => Knows(de, de.ed[e].version, de.ed[e].seen)
  BY <1>3, PageTypes DEF CopiesKnow
<1> HIDE DEF f
<1>5. DeSound(s)
  BY <1>1, <1>4, PageTypes, PageChanges DEF DeInv
<1>6. QED
  BY <1>2, <1>5 DEF DeInv

LEMMA DocumentArrivesInv ==
    ASSUME DeInv, NEW t \in DeTabs, DocumentArrives(t)
    PROVE  DeInv'
<1> DEFINE c == [de.cache EXCEPT ![t] = de.fetch[t]]
<1> DEFINE f == [de.fetch EXCEPT ![t] = Closed]
<1> DEFINE in == [de EXCEPT !.cache[t] = de.fetch[t], !.fetch[t] = Closed]
<1>1. de.fetch[t] \in DeDocuments /\ de.fetch[t] \notin {Closed, Asked}
  BY PageTypes DEF DocumentArrives
<1>2. ~de.overlap => Knows(de, de.fetch[t].version, {de.fetch[t].stamp})
  BY <1>1, PageTypes DEF CopiesKnow
<1>3. c \in [DeTabs -> DeDocuments \cup {Null}] /\ f \in [DeTabs -> DeDocuments \cup {Closed, Asked}]
  BY <1>1, PageTypes
<1>4. ~de.overlap => /\ \A v \in DeTabs : f[v] \notin {Closed, Asked} => Knows(de, f[v].version, {f[v].stamp})
                     /\ \A v \in DeTabs : c[v] # Null => Knows(de, c[v].version, {c[v].stamp})
                     /\ \A e \in DeEditors : de.ed[e] # Closed => Knows(de, de.ed[e].version, de.ed[e].seen)
  BY <1>2, PageTypes DEF CopiesKnow
<1>5. \/ de' = in
      \/ \E e \in Unused : de' = [in EXCEPT !.ed[e] = MountedEditor(t, de.fetch[t])]
  BY DEF DocumentArrives
<1>6. in = [de EXCEPT !.cache = c, !.fetch = f, !.ed = de.ed]
  BY PageTypes DEF DeStates
<1>7. CASE de' = in
  <2> HIDE DEF c, f
  <2>1. DeSound([de EXCEPT !.cache = c, !.fetch = f, !.ed = de.ed])
    BY <1>3, <1>4, PageTypes, PageChanges DEF DeInv
  <2> QED
    BY <1>6, <1>7, <2>1 DEF DeInv
<1>8. ASSUME NEW e \in Unused, de' = [in EXCEPT !.ed[e] = MountedEditor(t, de.fetch[t])]
      PROVE  DeInv'
  <2> DEFINE m == MountedEditor(t, de.fetch[t])
  <2> DEFINE d == [de.ed EXCEPT ![e] = m]
  <2>1. e \in DeEditors /\ de.ed[e] = Closed
    BY DEF Unused
  <2>2. m \in DeMounted /\ (~de.overlap => Knows(de, m.version, m.seen))
    BY <1>1, <1>2, MountedKnows
  <2>3. de' = [de EXCEPT !.cache = c, !.fetch = f, !.ed = d]
    <3> HIDE DEF c, f, in, m
    <3>1. in.ed = de.ed
      BY <1>6, PageTypes DEF DeStates
    <3> QED
      BY <1>6, <1>8, <3>1, PageTypes DEF DeStates, m
  <2> HIDE DEF m
  <2>4. d \in [DeEditors -> DeMounted \cup {Closed}]
    BY <2>2, PageTypes
  <2>5. ~de.overlap => \A x \in DeEditors : d[x] # Closed => Knows(de, d[x].version, d[x].seen)
    BY <2>1, <2>2, PageTypes DEF CopiesKnow
  <2>6. \A x \in DeEditors : de.ed[x] # Closed => d[x] # Closed /\ de.ed[x].seen \subseteq d[x].seen
    BY <2>1, PageTypes
  <2> HIDE DEF c, f, d
  <2>7. DeSound([de EXCEPT !.cache = c, !.fetch = f, !.ed = d])
    BY <1>3, <1>4, <2>4, <2>5, <2>6, PageChanges DEF DeInv
  <2> QED
    BY <2>3, <2>7 DEF DeInv
<1>9. QED
  BY <1>5, <1>7, <1>8


(* An editor of which nothing changes but what it shows: its text, its     *)
(* timer, whether its page is open.                                        *)
LEMMA EditorChanges ==
    ASSUME DeInv, NEW e \in DeEditors, de.ed[e] # Closed, NEW new \in DeMounted,
           new.version = de.ed[e].version, new.seen = de.ed[e].seen
    PROVE  LET s == [de EXCEPT !.cache = de.cache, !.fetch = de.fetch, !.ed = [de.ed EXCEPT ![e] = new]]
           IN DeSound(s) /\ s.ops = de.ops
<1> DEFINE d == [de.ed EXCEPT ![e] = new]
<1>1. d \in [DeEditors -> DeMounted \cup {Closed}] /\ new # Closed
  BY PageTypes, DeAssumption
<1>2. \A x \in DeEditors : de.ed[x] # Closed => d[x] # Closed /\ de.ed[x].seen \subseteq d[x].seen
  BY <1>1, PageTypes
<1>3. ~de.overlap => /\ \A t \in DeTabs : /\ de.cache[t] # Null => Knows(de, de.cache[t].version, {de.cache[t].stamp})
                                          /\ de.fetch[t] \notin {Closed, Asked} =>
                                               Knows(de, de.fetch[t].version, {de.fetch[t].stamp})
                     /\ \A x \in DeEditors : d[x] # Closed => Knows(de, d[x].version, d[x].seen)
  BY PageTypes DEF CopiesKnow
<1> HIDE DEF d
<1> DEFINE s == [de EXCEPT !.cache = de.cache, !.fetch = de.fetch, !.ed = d]
<1>4. DeSound(s)
  BY <1>1, <1>2, <1>3, PageTypes, PageChanges DEF DeInv
<1>5. s.ops = de.ops
  BY PageTypes DEF DeStates
<1>6. QED
  BY <1>4, <1>5 DEF d

LEMMA LeaveDocumentInv ==
    ASSUME DeInv, NEW t \in DeTabs, LeaveDocument(t)
    PROVE  DeInv'
<1>1. PICK e \in Open(t) : UserDoes([de EXCEPT !.ed[e].open = FALSE])
  BY DEF LeaveDocument
<1> DEFINE new == [de.ed[e] EXCEPT !.open = FALSE]
<1>2. e \in DeEditors /\ de.ed[e] # Closed
  BY DEF Open, Unused
<1>3. de.ed[e] \in DeMounted
  BY <1>2, PageTypes
<1>4. new \in DeMounted /\ new.version = de.ed[e].version /\ new.seen = de.ed[e].seen
  BY <1>3 DEF DeMounted
<1>5. [de EXCEPT !.ed[e].open = FALSE]
        = [de EXCEPT !.cache = de.cache, !.fetch = de.fetch, !.ed = [de.ed EXCEPT ![e] = new]]
  BY PageTypes DEF DeStates
<1> HIDE DEF new
<1>6. QED
  BY <1>1, <1>2, <1>4, <1>5, EditorChanges, UserDoesSound

LEMMA WriteInv ==
    ASSUME DeInv, NEW e \in DeEditors, Write(e)
    PROVE  DeInv'
<1>1. PICK x \in DeTexts : UserDoes([de EXCEPT !.ed[e].text = x, !.ed[e].timer = TRUE])
  BY DEF Write
<1> DEFINE new == [de.ed[e] EXCEPT !.text = x, !.timer = TRUE]
<1>2. de.ed[e] # Closed /\ de.ed[e] \in DeMounted
  BY PageTypes DEF Write
<1>3. new \in DeMounted /\ new.version = de.ed[e].version /\ new.seen = de.ed[e].seen
  BY <1>2 DEF DeMounted
<1>4. [de EXCEPT !.ed[e].text = x, !.ed[e].timer = TRUE]
        = [de EXCEPT !.cache = de.cache, !.fetch = de.fetch, !.ed = [de.ed EXCEPT ![e] = new]]
  BY <1>2, PageTypes, ZenonT(60) DEF DeStates, DeMounted
<1> HIDE DEF new
<1>5. QED
  BY <1>1, <1>2, <1>3, <1>4, EditorChanges, UserDoesSound

(* The title has no version.                                               *)
LEMMA RetitleInv ==
    ASSUME DeInv, NEW e \in DeEditors, Retitle(e)
    PROVE  DeInv'
<1> DEFINE s == [de EXCEPT !.doc.titled = @ + 1]
<1>1. UserDoes(s)
  BY DEF Retitle
<1>2. de \in DeStates /\ de.doc \in DeDocuments
  BY PageTypes DEF DeStates
<1> DEFINE doc == [de.doc EXCEPT !.titled = @ + 1]
<1>3. doc \in DeDocuments /\ doc.version = de.doc.version /\ doc.stamp = de.doc.stamp
  BY <1>2 DEF DeDocuments
<1>4. s = [de EXCEPT !.doc = doc]
  BY <1>2 DEF DeStates
<1> HIDE DEF doc, s
<1>5. /\ s \in DeStates /\ s.doc = doc /\ s.cache = de.cache /\ s.fetch = de.fetch /\ s.ed = de.ed
      /\ s.net = de.net /\ s.overlap = de.overlap /\ s.ops = de.ops
  BY <1>2, <1>3, <1>4 DEF DeStates
<1>6. ~de.overlap => OneAtATime(s) /\ CopiesKnow(s)
  BY <1>3, <1>5, PageTypes DEF OneAtATime, CopiesKnow, Knows
<1>7. DeSound(s)
  BY <1>3, <1>5, <1>6, TextStays DEF DeInv
<1>8. QED
  BY <1>1, <1>5, <1>7, UserDoesSound


LEMMA SaveContentInv ==
    ASSUME DeInv, NEW e \in DeEditors, SaveContent(e)
    PROVE  DeInv'
<1> DEFINE new == [de.ed[e] EXCEPT !.timer = FALSE, !.state = "saving"]
<1> DEFINE m == [nth |-> de.sent + 1, ed |-> e, text |-> de.ed[e].text,
                 expected |-> de.ed[e].version, step |-> "sent"]
<1> DEFINE d == [de.ed EXCEPT ![e] = new]
<1>1. de \in DeStates /\ de.ed[e] # Closed /\ de.ed[e] \in DeMounted
  BY PageTypes DEF SaveContent
<1>2. new \in DeMounted /\ new.version = de.ed[e].version /\ new.seen = de.ed[e].seen /\ new # Closed
  BY <1>1, DeAssumption DEF DeMounted
<1>3. m \in DeSaves /\ m.ed = e /\ m.expected = de.ed[e].version /\ m.step = "sent"
  BY <1>1 DEF DeStates, DeMounted, DeSaves
<1>4. de' = [de EXCEPT !.ed = d, !.sent = de.sent + 1, !.net = de.net \cup {m}]
  BY <1>1, ZenonT(60) DEF SaveContent, DeStates, DeMounted
<1> HIDE DEF new, m
<1>5. /\ d \in [DeEditors -> DeMounted \cup {Closed}] /\ d[e] = new
      /\ \A x \in DeEditors : x # e => d[x] = de.ed[x]
  BY <1>2, PageTypes
<1> HIDE DEF d
<1>6. de.net \cup {m} \in SUBSET DeSaves /\ de.sent + 1 \in Nat
  BY <1>1, <1>3 DEF DeStates
<1>7. /\ de' \in DeStates /\ de'.doc = de.doc /\ de'.cache = de.cache /\ de'.fetch = de.fetch /\ de'.ed = d
      /\ de'.net = de.net \cup {m} /\ de'.overlap = de.overlap
  BY <1>1, <1>4, <1>5, <1>6 DEF DeStates
<1>8. \A x \in DeEditors : de.ed[x] # Closed => d[x] # Closed /\ de.ed[x].seen \subseteq d[x].seen
  BY <1>2, <1>5
<1>9. PICK s : s = de'
  OBVIOUS
<1>10. ~de.overlap => OneAtATime(s)
  BY <1>3, <1>7, <1>9, PageTypes DEF OneAtATime
<1>11. ~de.overlap => CopiesKnow(s)
  <2>1. \A v, seen : Knows(de, v, seen) <=> Knows(s, v, seen)
    BY <1>7, <1>9 DEF Knows
  <2>2. ~de.overlap => \A x \in DeEditors : d[x] # Closed => Knows(de, d[x].version, d[x].seen)
    BY <1>1, <1>2, <1>5, PageTypes DEF CopiesKnow
  <2> QED
    BY <1>7, <1>9, <2>1, <2>2, PageTypes DEF CopiesKnow
<1>12. s.ed[m.ed] # Closed /\ (~de.overlap => SaveKnows(s, m))
  <2>1. ~de.overlap => Knows(de, de.ed[e].version, de.ed[e].seen)
    BY <1>1, PageTypes DEF CopiesKnow
  <2> QED
    BY <1>2, <1>3, <1>5, <1>7, <1>9, <2>1 DEF SaveKnows, Knows
<1>13. \A n \in s.net : n \in de.net \/ (s.ed[n.ed] # Closed /\ (~de.overlap /\ ~s.overlap => SaveKnows(s, n)))
  BY <1>7, <1>9, <1>12
<1>14. DeSound(s)
  BY <1>7, <1>8, <1>9, <1>10, <1>11, <1>13, TextStays DEF DeInv
<1>15. QED
  BY <1>9, <1>14 DEF DeInv

(* A save moves on in the server, unless it writes: it tells no editor     *)
(* anything, and what it has been told it knows.                           *)
LEMMA SaveMoves ==
    ASSUME DeInv, NEW m \in de.net, NEW to \in DeSaves, to.ed = m.ed,
           NEW overlap \in BOOLEAN, de.overlap => overlap,
           de' = [de EXCEPT !.net = Moved(m, to), !.overlap = overlap],
           ~de.overlap /\ ~overlap =>
             /\ SaveKnows(de, to)
             /\ to.step \in {"checked", "written"} =>
                  \A n \in de.net : n.step \in {"checked", "written"} => n = m
    PROVE  DeInv'
<1> DEFINE net == (de.net \ {m}) \cup {to}
<1>1. de \in DeStates
  BY PageTypes
<1>2. net \in SUBSET DeSaves /\ de.ed[m.ed] # Closed
  BY <1>1 DEF DeStates, DeInv, DeSound
<1>3. de' = [de EXCEPT !.net = net, !.overlap = overlap]
  BY DEF Moved
<1> HIDE DEF net
<1>4. /\ de' \in DeStates /\ de'.doc = de.doc /\ de'.cache = de.cache /\ de'.fetch = de.fetch
      /\ de'.ed = de.ed /\ de'.net = net /\ de'.overlap = overlap
  BY <1>1, <1>2, <1>3 DEF DeStates
<1>5. PICK s : s = de'
  OBVIOUS
<1>6. ~de.overlap /\ ~overlap => OneAtATime(s)
  BY <1>4, <1>5, PageTypes DEF OneAtATime, net
<1>7. ~de.overlap => CopiesKnow(s)
  BY <1>4, <1>5, PageTypes DEF CopiesKnow, Knows
<1>8. ~de.overlap /\ ~overlap => SaveKnows(s, to)
  BY <1>4, <1>5 DEF SaveKnows, Knows
<1>9. \A n \in s.net : n \in de.net \/ (s.ed[n.ed] # Closed /\ (~de.overlap /\ ~s.overlap => SaveKnows(s, n)))
  BY <1>2, <1>4, <1>5, <1>8 DEF net
<1>10. /\ s \in DeStates /\ s.doc.version = de.doc.version /\ s.doc.stamp = de.doc.stamp
       /\ de.overlap => s.overlap
       /\ \A e \in DeEditors : de.ed[e] # Closed => s.ed[e] # Closed /\ de.ed[e].seen \subseteq s.ed[e].seen
       /\ ~de.overlap /\ ~s.overlap => OneAtATime(s) /\ CopiesKnow(s)
  BY <1>4, <1>5, <1>6, <1>7
<1>11. DeSound(s)
  BY <1>9, <1>10, TextStays DEF DeInv
<1>12. QED
  BY <1>5, <1>11 DEF DeInv

LEMMA CheckVersionInv ==
    ASSUME DeInv, NEW m \in de.net, CheckVersion(m)
    PROVE  DeInv'
<1> DEFINE step == IF m.expected = de.doc.version THEN "checked" ELSE "refused"
<1> DEFINE to == [m EXCEPT !.step = step]
<1> DEFINE overlap == de.overlap \/ Overlaps(m)
<1>1. de \in DeStates /\ m \in DeSaves /\ m.step = "sent"
  BY PageTypes DEF DeStates, CheckVersion
<1>2. step \in {"checked", "refused"} /\ (step = "checked" => m.expected = de.doc.version)
  OBVIOUS
<1>3. de' = [de EXCEPT !.net = Moved(m, to), !.overlap = overlap]
  BY DEF CheckVersion
<1> HIDE DEF step
<1>4. to \in DeSaves /\ to.ed = m.ed /\ to.step = step /\ to.expected = m.expected
  BY <1>1, <1>2 DEF DeSaves
<1>5. overlap \in BOOLEAN /\ (de.overlap => overlap)
  BY <1>1 DEF DeStates, Overlaps
<1>6. ~de.overlap /\ ~overlap =>
        /\ SaveKnows(de, to)
        /\ \A n \in de.net : n.step \in {"checked", "written"} => n = m
  <2>1. SUFFICES ASSUME ~de.overlap, ~Overlaps(m)
                 PROVE  /\ SaveKnows(de, to)
                        /\ \A n \in de.net : n.step \in {"checked", "written"} => n = m
    OBVIOUS
  <2>2. SaveKnows(de, m)
    BY <2>1 DEF DeInv, DeSound
  <2>3. SaveKnows(de, to)
    <3> HIDE DEF to
    <3> QED
      BY <1>1, <1>2, <1>4, <2>2 DEF SaveKnows, Knows
  <2> QED
    BY <2>1, <2>3 DEF Overlaps
<1> HIDE DEF to, overlap
<1>7. QED
  BY <1>3, <1>4, <1>5, <1>6, SaveMoves

(* The answer tells the version now stored, and its text is one the editor *)
(* has written itself.                                                     *)
LEMMA RefreshDocumentInv ==
    ASSUME DeInv, NEW m \in de.net, RefreshDocument(m)
    PROVE  DeInv'
<1> DEFINE to == [m EXCEPT !.step = "answered", !.expected = de.doc.version]
<1>1. de \in DeStates /\ m \in DeSaves /\ m.step = "written" /\ de.doc.version \in Nat
  BY PageTypes DEF DeStates, DeDocuments, RefreshDocument
<1>2. de' = [de EXCEPT !.net = Moved(m, to), !.overlap = de.overlap]
  BY <1>1 DEF RefreshDocument, DeStates
<1>3. to \in DeSaves /\ to.ed = m.ed /\ to.step = "answered" /\ to.expected = de.doc.version
  BY <1>1 DEF DeSaves
<1> HIDE DEF to
<1>4. ~de.overlap => SaveKnows(de, to)
  <2>1. ~de.overlap => SaveKnows(de, m)
    BY DEF DeInv, DeSound
  <2> QED
    BY <1>1, <1>3, <2>1 DEF SaveKnows, Knows
<1>5. de.overlap \in BOOLEAN
  BY <1>1 DEF DeStates
<1>6. QED
  BY <1>2, <1>3, <1>4, <1>5, SaveMoves


(* An answer reaches its editor, or the editor hears that there is none.   *)
LEMMA SaveComesBack ==
    ASSUME DeInv, NEW m \in de.net, NEW new \in DeMounted, NEW losses \in Nat,
           new.seen = de.ed[m.ed].seen,
           de' = [de EXCEPT !.net = @ \ {m}, !.ed = [de.ed EXCEPT ![m.ed] = new], !.losses = losses],
           ~de.overlap => Knows(de, new.version, new.seen)
    PROVE  DeInv'
<1> DEFINE d == [de.ed EXCEPT ![m.ed] = new]
<1>1. de \in DeStates /\ m.ed \in DeEditors /\ new # Closed
  BY PageTypes, DeAssumption DEF DeStates, DeSaves
<1>2. /\ d \in [DeEditors -> DeMounted \cup {Closed}] /\ d[m.ed] = new
      /\ \A x \in DeEditors : x # m.ed => d[x] = de.ed[x]
  BY <1>1, PageTypes
<1>3. de' = [de EXCEPT !.net = de.net \ {m}, !.ed = d, !.losses = losses]
  OBVIOUS
<1> HIDE DEF d
<1>4. de.net \ {m} \in SUBSET DeSaves
  BY <1>1 DEF DeStates
<1>5. /\ de' \in DeStates /\ de'.doc = de.doc /\ de'.cache = de.cache /\ de'.fetch = de.fetch
      /\ de'.ed = d /\ de'.net = de.net \ {m} /\ de'.overlap = de.overlap
  BY <1>1, <1>2, <1>3, <1>4 DEF DeStates
<1>6. PICK s : s = de'
  OBVIOUS
<1>7. \A v, seen : Knows(de, v, seen) <=> Knows(s, v, seen)
  BY <1>5, <1>6 DEF Knows
<1>8. ~de.overlap => \A x \in DeEditors : d[x] # Closed => Knows(de, d[x].version, d[x].seen)
  BY <1>2, PageTypes DEF CopiesKnow
<1>9. ~de.overlap => CopiesKnow(s)
  BY <1>5, <1>6, <1>7, <1>8, PageTypes DEF CopiesKnow
<1>10. ~de.overlap => OneAtATime(s)
  BY <1>5, <1>6, PageTypes DEF OneAtATime
<1>11. /\ s \in DeStates /\ s.doc.version = de.doc.version /\ s.doc.stamp = de.doc.stamp
       /\ de.overlap => s.overlap
       /\ \A e \in DeEditors : de.ed[e] # Closed => s.ed[e] # Closed /\ de.ed[e].seen \subseteq s.ed[e].seen
       /\ \A n \in s.net : n \in de.net
  BY <1>1, <1>2, <1>5, <1>6
<1>12. DeSound(s)
  BY <1>9, <1>10, <1>11, TextStays DEF DeInv
<1>13. QED
  BY <1>6, <1>12 DEF DeInv

LEMMA SaveAnsweredInv ==
    ASSUME DeInv, NEW m \in de.net, SaveAnswered(m)
    PROVE  DeInv'
<1> DEFINE new == [de.ed[m.ed] EXCEPT !.version = m.expected, !.state = "saved"]
<1>1. de \in DeStates /\ m \in DeSaves /\ m.step = "answered" /\ de.ed[m.ed] # Closed
  BY PageTypes DEF DeInv, DeSound, DeStates, SaveAnswered
<1>2. m.ed \in DeEditors /\ m.expected \in Nat /\ de.ed[m.ed] \in DeMounted /\ de.losses \in Nat
  BY <1>1, PageTypes DEF DeSaves, DeStates
<1>3. new \in DeMounted /\ new.version = m.expected /\ new.seen = de.ed[m.ed].seen
  BY <1>2 DEF DeMounted
<1>4. de' = [de EXCEPT !.net = @ \ {m}, !.ed = [de.ed EXCEPT ![m.ed] = new], !.losses = de.losses]
  BY <1>1, <1>2 DEF SaveAnswered, DeStates, DeMounted
<1> HIDE DEF new
<1>5. ~de.overlap => Knows(de, new.version, new.seen)
  BY <1>1, <1>3 DEF DeInv, DeSound, SaveKnows
<1>6. QED
  BY <1>2, <1>3, <1>4, <1>5, SaveComesBack

LEMMA SaveFailsInv ==
    ASSUME DeInv, NEW m \in de.net, SaveRefused(m) \/ SaveLost(m)
    PROVE  DeInv'
<1> DEFINE new == [de.ed[m.ed] EXCEPT !.state = "error"]
<1>1. de \in DeStates /\ m \in DeSaves /\ de.ed[m.ed] # Closed
  BY PageTypes DEF DeInv, DeSound, DeStates
<1>2. m.ed \in DeEditors /\ de.ed[m.ed] \in DeMounted /\ de.losses \in Nat
  BY <1>1, PageTypes DEF DeSaves, DeStates
<1>3. new \in DeMounted /\ new.version = de.ed[m.ed].version /\ new.seen = de.ed[m.ed].seen
  BY <1>2 DEF DeMounted
<1>4. \E losses \in Nat :
        de' = [de EXCEPT !.net = @ \ {m}, !.ed = [de.ed EXCEPT ![m.ed] = new], !.losses = losses]
  <2>1. CASE SaveRefused(m)
    BY <1>1, <1>2, <2>1 DEF SaveRefused, DeStates
  <2>2. CASE SaveLost(m)
    <3>1. de.losses - 1 \in Nat
      BY <1>2, <2>2 DEF SaveLost
    <3>2. de' = [de EXCEPT !.net = @ \ {m}, !.ed = [de.ed EXCEPT ![m.ed] = new], !.losses = de.losses - 1]
      BY <1>1, <1>2, <2>2 DEF SaveLost, DeStates
    <3> QED
      BY <3>1, <3>2
  <2> QED
    BY <2>1, <2>2
<1> HIDE DEF new
<1>5. ~de.overlap => Knows(de, new.version, new.seen)
  BY <1>1, <1>2, <1>3, PageTypes DEF CopiesKnow
<1>6. QED
  BY <1>3, <1>4, <1>5, SaveComesBack


(* What is written is newer than all that is held: nobody who has not seen *)
(* it holds its version.                                                   *)
LEMMA ReplaceContentInv ==
    ASSUME DeInv, NEW m \in de.net, ReplaceContent(m)
    PROVE  DeInv'
<1> DEFINE doc == [de.doc EXCEPT !.text = m.text, !.version = m.expected + 1, !.stamp = m.nth]
<1> DEFINE new == [de.ed[m.ed] EXCEPT !.seen = @ \cup {m.nth}]
<1> DEFINE d == [de.ed EXCEPT ![m.ed] = new]
<1> DEFINE to == [m EXCEPT !.step = "written"]
<1> DEFINE net == (de.net \ {m}) \cup {to}
<1>1. de \in DeStates /\ m \in DeSaves /\ m.step = "checked" /\ de.ed[m.ed] # Closed
  BY PageTypes DEF DeInv, DeSound, DeStates, ReplaceContent
<1>2. /\ m.ed \in DeEditors /\ de.ed[m.ed] \in DeMounted /\ de.doc \in DeDocuments
      /\ m.nth \in Nat /\ m.expected \in Nat /\ m.text \in DeTexts
  BY <1>1, PageTypes DEF DeSaves, DeStates
<1>3. doc \in DeDocuments /\ doc.version = m.expected + 1 /\ doc.stamp = m.nth
  <2>1. m.expected + 1 \in Nat
    BY <1>2
  <2> QED
    BY <1>2, <2>1 DEF DeDocuments
<1>4. /\ new \in DeMounted /\ new.version = de.ed[m.ed].version
      /\ new.seen = de.ed[m.ed].seen \cup {m.nth} /\ new # Closed
  BY <1>2, DeAssumption DEF DeMounted
<1>5. to \in DeSaves /\ to.ed = m.ed /\ to.step = "written"
  BY <1>1 DEF DeSaves
<1>6. de' = [de EXCEPT !.doc = doc, !.ed = d, !.net = net]
  BY <1>1, <1>2 DEF ReplaceContent, DeStates, DeMounted, DeDocuments, Moved
<1> HIDE DEF doc, new, to
<1>7. /\ d \in [DeEditors -> DeMounted \cup {Closed}] /\ d[m.ed] = new
      /\ \A x \in DeEditors : x # m.ed => d[x] = de.ed[x]
  BY <1>2, <1>4, PageTypes
<1>8. net \in SUBSET DeSaves
  BY <1>1, <1>5 DEF DeStates
<1> HIDE DEF d
<1>9. /\ de' \in DeStates /\ de'.doc = doc /\ de'.cache = de.cache /\ de'.fetch = de.fetch
      /\ de'.ed = d /\ de'.net = net /\ de'.overlap = de.overlap
  <2> HIDE DEF net
  <2> QED
    BY <1>1, <1>3, <1>6, <1>7, <1>8 DEF DeStates
<1>10. PICK s : s = de'
  OBVIOUS
<1>11. \A n \in de.net : n.ed \in DeEditors /\ de.ed[n.ed] # Closed
  BY <1>1 DEF DeInv, DeSound, DeStates, DeSaves
<1>12. \A n \in s.net : s.ed[n.ed] # Closed
  BY <1>4, <1>5, <1>7, <1>9, <1>10, <1>11
<1>13. ASSUME ~de.overlap
       PROVE  OneAtATime(s) /\ CopiesKnow(s) /\ \A n \in s.net : SaveKnows(s, n)
  <2>1. /\ doc.version = de.doc.version + 1 /\ de.doc.version \in Nat
        /\ \A n \in de.net : SaveKnows(de, n)
        /\ \A n \in de.net \ {m} : n.step \notin {"checked", "written"}
        /\ CopiesKnow(de)
    <3>1. m.expected = de.doc.version
      BY <1>1, <1>13 DEF DeInv, DeSound, SaveKnows
    <3> QED
      BY <1>1, <1>2, <1>3, <1>13, <3>1, PageTypes DEF DeInv, DeSound, OneAtATime, DeDocuments
  <2>2. \A v \in Nat : \A old, seen : Knows(de, v, old) => Knows(s, v, seen)
    <3>1. SUFFICES ASSUME NEW v \in Nat, v \leq de.doc.version
                   PROVE  v \leq doc.version /\ v # doc.version
      BY <1>9, <1>10 DEF Knows
    <3> QED
      BY <2>1, <3>1
  <2>3. OneAtATime(s)
    BY <1>9, <1>10, <2>1 DEF OneAtATime
  <2>4. CopiesKnow(s)
    <3>1. \A t \in DeTabs : /\ de.cache[t] # Null => de.cache[t].version \in Nat
                            /\ de.fetch[t] \notin {Closed, Asked} => de.fetch[t].version \in Nat
      BY PageTypes DEF DeDocuments
    <3>2. \A e \in DeEditors : de.ed[e] # Closed => de.ed[e].version \in Nat
      BY PageTypes DEF DeMounted
    <3>3. \A t \in DeTabs : /\ s.cache[t] # Null => Knows(s, s.cache[t].version, {s.cache[t].stamp})
                            /\ s.fetch[t] \notin {Closed, Asked} => Knows(s, s.fetch[t].version, {s.fetch[t].stamp})
      BY <1>9, <1>10, <2>1, <2>2, <3>1 DEF CopiesKnow
    <3>4. \A e \in DeEditors : d[e] # Closed => de.ed[e] # Closed /\ d[e].version = de.ed[e].version
      BY <1>1, <1>4, <1>7
    <3>5. \A e \in DeEditors : s.ed[e] # Closed => Knows(s, s.ed[e].version, s.ed[e].seen)
      BY <1>9, <1>10, <2>1, <2>2, <3>2, <3>4 DEF CopiesKnow
    <3> QED
      BY <3>3, <3>5 DEF CopiesKnow
  <2>5. ASSUME NEW n \in s.net PROVE SaveKnows(s, n)
    <3>1. CASE n = to
      BY <1>4, <1>3, <1>5, <1>7, <1>9, <1>10, <3>1 DEF SaveKnows
    <3>2. CASE n \in de.net \ {m}
      <4>1. n.step \notin {"checked", "written"} /\ SaveKnows(de, n) /\ n.expected \in Nat
        BY <1>1, <2>1, <3>2 DEF DeStates, DeSaves
      <4> QED
        BY <2>2, <4>1 DEF SaveKnows
    <3> QED
      BY <1>9, <1>10, <2>5, <3>1, <3>2
  <2> QED
    BY <2>3, <2>4, <2>5
<1>14. DeSound(s)
  BY <1>9, <1>10, <1>12, <1>13 DEF DeSound
<1>15. QED
  BY <1>10, <1>14 DEF DeInv

LEMMA DeInitInv == DeInit => DeInv
<1>1. SUFFICES ASSUME NEW x \in DeTexts,
                      de = [doc |-> [text |-> x, version |-> 1, stamp |-> 0, titled |-> 0],
                            cache |-> [t \in DeTabs |-> Null], fetch |-> [t \in DeTabs |-> Closed],
                            ed |-> [e \in DeEditors |-> Closed], net |-> {}, sent |-> 0,
                            overlap |-> FALSE, losses |-> DeLosses, ops |-> DeOps]
               PROVE  DeSound(de)
  BY DEF DeInit, DeInv
<1>2. [text |-> x, version |-> 1, stamp |-> 0, titled |-> 0] \in DeDocuments
  BY DEF DeDocuments
<1>3. de \in DeStates
  BY <1>1, <1>2, DeAssumption DEF DeStates
<1>4. OneAtATime(de) /\ CopiesKnow(de) /\ \A m \in de.net : SaveKnows(de, m) /\ de.ed[m.ed] # Closed
  BY <1>1 DEF OneAtATime, CopiesKnow
<1>5. QED
  BY <1>3, <1>4 DEF DeSound

LEMMA DeNextInv ==
    ASSUME DeInv, [DeNext]_de
    PROVE  DeInv'
<1>1. CASE UNCHANGED de
  BY <1>1 DEF DeInv
<1>2. CASE \E t \in DeTabs : Page(t)
  BY <1>2, OpenDocumentInv, ServeDocumentInv, DocumentArrivesInv, LeaveDocumentInv DEF Page
<1>3. CASE \E e \in DeEditors : Editor(e)
  BY <1>3, WriteInv, RetitleInv, SaveContentInv DEF Editor
<1>4. CASE \E m \in de.net : Saving(m)
  BY <1>4, CheckVersionInv, ReplaceContentInv, RefreshDocumentInv, SaveAnsweredInv, SaveFailsInv DEF Saving
<1>5. QED
  BY <1>1, <1>2, <1>3, <1>4 DEF DeNext

(* As long as no two saves overlap, whoever holds the version stored has   *)
(* seen the text stored (replace_document_content, BlockDocumentEditor).   *)
THEOREM DocumentInvariant == DeSpec => []DeInv
<1>1. DeInit => DeInv
  BY DeInitInv
<1>2. DeInv /\ [DeNext]_de => DeInv'
  BY DeNextInv
<1>3. QED
  BY <1>1, <1>2, PTL DEF DeSpec

LEMMA DeInvSuffices ==
    DeInv /\ ~de.overlap => \A m \in de.net : ReplaceContent(m) => de.doc.stamp \in de.ed[m.ed].seen
BY DEF DeInv, DeSound, SaveKnows, ReplaceContent

-----------------------------------------------------------------------------
(* The rows loaded by a table.                                             *)

IsList(p) == p \in Seq(Range(p))

(* p are the first pages of these rows, one after the other.               *)
PagesFrom(rows, p, n) == IsList(p) /\ \A i \in 1..Len(p) : p[i] \in Queried(rows, n + i)
FirstPages(rows, p) == PagesFrom(rows, p, 0)

RcShape(s) ==
    /\ s \in [rows : {s.rows}, made : {s.made}, pages : {s.pages}, fetch : {s.fetch}, net : {s.net},
              sent : {s.sent}, gone : {s.gone}, torn : {s.torn}, ops : {s.ops}]
    /\ s.fetch \in [want : {s.fetch.want}, old : {s.fetch.old}, got : {s.fetch.got}, whole : {s.fetch.whole}]
    /\ s.torn \in BOOLEAN /\ s.fetch.whole \in BOOLEAN
    /\ IsFiniteSet(s.rows)

(* With no request under way, what is kept and what is being fetched are   *)
(* pages of the rows there are.                                            *)
RcSound(s) ==
    /\ RcShape(s)
    /\ s.net = {} =>
         /\ s.fetch = NoFetch /\ ~s.torn => s.pages # <<>> /\ FirstPages(s.rows, s.pages)
         /\ s.fetch # NoFetch /\ (s.fetch.whole \/ ~s.torn) =>
               FirstPages(s.rows, s.fetch.old) /\ PagesFrom(s.rows, s.fetch.got, Len(s.fetch.old))

RcInv == RcSound(rc)

(* The last page is there when no page is to come.                         *)
LEMMA PagesAreEnough ==
    ASSUME NEW N \in Nat, NEW n \in Nat, ~(n < PageCount(N))
    PROVE  N <= n * RcPageSize
<1> DEFINE P == RcPageSize
           k == (N + P - 1) \div P
           m == (N + P - 1) % P
<1>1. P \in Nat /\ P > 0
  BY RcAssumption
<1>2. N + P - 1 = P * k + m /\ m < P /\ k \in Int /\ m \in Nat
  BY <1>1, SMT
<1>3. k <= n
  BY <1>2 DEF PageCount
<1>4. P * k <= P * n
  <2> HIDE DEF k, m, P
  <2>1. n - k \in Nat
    BY <1>2, <1>3
  <2>2. P * (n - k) \in Nat
    BY <1>1, <2>1
  <2>3. P * (n - k) = P * n - P * k
    BY <1>1, <1>2
  <2>4. P * n \in Int /\ P * k \in Int
    BY <1>1, <1>2
  <2> QED
    BY <2>2, <2>3, <2>4
<1>5. P * k \in Int /\ P * n \in Int /\ P * n = n * P
  <2> HIDE DEF k, m, P
  <2> QED
    BY <1>1, <1>2
<1>6. N <= P * n
  <2> DEFINE a == P * k
             b == P * n
  <2>1. a \in Int /\ b \in Int /\ a <= b /\ N + P - 1 = a + m
    BY <1>2, <1>4, <1>5
  <2> HIDE DEF k, m, P, a, b
  <2>2. N <= b
    BY <1>1, <1>2, <2>1
  <2> QED
    BY <2>2 DEF b
<1>7. QED
  BY <1>5, <1>6


-----------------------------------------------------------------------------
(* A number is so many pages and a rest.                                   *)
LEMMA PagesAndRest ==
    ASSUME NEW x \in Nat
    PROVE  LET k == x \div RcPageSize
               c == x % RcPageSize
           IN k \in Nat /\ c \in Nat /\ c < RcPageSize /\ x = k * RcPageSize + c
<1> DEFINE P == RcPageSize
           k == x \div P
           c == x % P
<1>1. P \in Nat /\ P > 0
  BY RcAssumption
<1>2. x = P * k + c /\ c < P /\ k \in Int /\ c \in Nat
  BY <1>1, SMT
<1> HIDE DEF k, c, P
<1>3. k \in Nat
  <2> SUFFICES ASSUME ~(k \in Nat) PROVE FALSE
    OBVIOUS
  <2>1. -(k + 1) \in Nat
    BY <1>2
  <2>2. P * (-(k + 1)) \in Nat
    BY <1>1, <2>1
  <2>3. P * (-(k + 1)) = -(P * k) - P
    BY <1>1, <1>2
  <2>4. P * k \in Int
    BY <1>1, <1>2
  <2> QED
    BY <1>1, <1>2, <2>2, <2>3, <2>4
<1>4. P * k = k * P /\ P * k \in Int
  BY <1>1, <1>2
<1>5. x = k * P + c
  BY <1>2, <1>4
<1> QED
  BY <1>2, <1>3, <1>5 DEF k, c, P

(* And only so many.                                                       *)
LEMMA OnlyPagesAndRest ==
    ASSUME NEW n \in Nat, NEW c \in Nat, c < RcPageSize
    PROVE  (n * RcPageSize + c) \div RcPageSize = n /\ (n * RcPageSize + c) % RcPageSize = c
<1> DEFINE P == RcPageSize
           x == n * P + c
           k == x \div P
           d == x % P
<1>1. P \in Nat /\ P > 0 /\ n * P \in Nat
  BY RcAssumption
<1>2. x \in Nat
  BY <1>1
<1>3. k \in Nat /\ d \in Nat /\ d < P /\ x = k * P + d
  <2> HIDE DEF x
  <2> QED
    BY <1>2, PagesAndRest
<1>4. n * P + c = k * P + d /\ k * P \in Nat
  <2>1. k * P \in Nat
    <3> HIDE DEF k
    <3> QED
      BY <1>1, <1>3
  <2> QED
    BY <1>3, <2>1
<1> HIDE DEF k, d, x, P
<1>5. ~(k < n)
  <2> SUFFICES ASSUME k < n PROVE FALSE
    OBVIOUS
  <2>1. n - k - 1 \in Nat
    BY <1>3
  <2>2. (n - k - 1) * P \in Nat
    BY <1>1, <2>1
  <2>3. (n - k - 1) * P = n * P - k * P - P
    BY <1>1, <1>3
  <2> QED
    BY <1>1, <1>3, <1>4, <2>2, <2>3 DEF P
<1>6. ~(n < k)
  <2> SUFFICES ASSUME n < k PROVE FALSE
    OBVIOUS
  <2>1. k - n - 1 \in Nat
    BY <1>3
  <2>2. (k - n - 1) * P \in Nat
    BY <1>1, <2>1
  <2>3. (k - n - 1) * P = k * P - n * P - P
    BY <1>1, <1>3
  <2>4. c < P
    BY DEF P
  <2> QED
    BY <1>1, <1>3, <1>4, <2>2, <2>3, <2>4
<1>7. k = n
  BY <1>3, <1>5, <1>6
<1>8. d = c
  BY <1>1, <1>3, <1>4, <1>7
<1> QED
  BY <1>7, <1>8 DEF k, d, x, P

(* The first n pages have so many rows.                                    *)
Upto(N, n) == IF N < n * RcPageSize THEN N ELSE n * RcPageSize

LEMMA UptoIsCount ==
    ASSUME NEW N \in Nat, NEW n \in Nat
    PROVE  /\ n * RcPageSize \in Nat /\ (n + 1) * RcPageSize = n * RcPageSize + RcPageSize
           /\ Upto(N, n) \in Nat /\ RcPageSize \in Nat /\ RcPageSize > 0
<1>1. RcPageSize \in Nat /\ RcPageSize > 0
  BY RcAssumption
<1>2. n * RcPageSize \in Nat /\ (n + 1) * RcPageSize = n * RcPageSize + RcPageSize
  BY <1>1
<1>3. QED
  BY <1>1, <1>2 DEF Upto

(* What a page can be: in each of its places one of the rows that can be there. *)
LEMMA QueriedItems ==
    ASSUME NEW rows, IsFiniteSet(rows), NEW n \in Nat, NEW page \in Queried(rows, n + 1)
    PROVE  LET N == Cardinality(rows)
               d == Upto(N, n + 1) - Upto(N, n)
           IN /\ page.items = [i \in 1..d |-> page.items[i]]
              /\ \A i \in 1..d : \E r \in AtPlace(rows, n * RcPageSize + i) : page.items[i] = r.id
              /\ page.page = n + 1 /\ page.pages = PageCount(N) /\ N \in Nat
<1> DEFINE N == Cardinality(rows)
           last == Min({N, (n + 1) * RcPageSize})
           a == n * RcPageSize
           d == Max({0, last - a})
<1>1. N \in Nat
  BY FS_CardinalityType
<1>2. /\ a \in Nat /\ (n + 1) * RcPageSize = a + RcPageSize
      /\ RcPageSize \in Nat /\ RcPageSize > 0
  BY <1>1, UptoIsCount
<1>3. last = IF N < a + RcPageSize THEN N ELSE a + RcPageSize
  BY <1>1, <1>2, MinOfTwo
<1>4. last - a \in Int
  BY <1>1, <1>2, <1>3
<1>5. d = IF 0 < last - a THEN last - a ELSE 0
  <2> DEFINE e == last - a
  <2>1. e \in Int /\ 0 \in Int
    BY <1>4
  <2> HIDE DEF e
  <2>2. Max({0, e}) = IF 0 < e THEN e ELSE 0
    BY <2>1, MaxOfTwo
  <2> QED
    BY <2>2 DEF e
<1>6. d = Upto(N, n + 1) - Upto(N, n)
  <2> DEFINE l == last
             p == RcPageSize
  <2>1. Upto(N, n + 1) = (IF N < a + p THEN N ELSE a + p) /\ Upto(N, n) = (IF N < a THEN N ELSE a)
    BY <1>2 DEF Upto
  <2>2. l = (IF N < a + p THEN N ELSE a + p) /\ p > 0 /\ p \in Nat /\ a \in Nat /\ N \in Nat
    BY <1>1, <1>2, <1>3
  <2>3. d = IF 0 < l - a THEN l - a ELSE 0
    BY <1>5
  <2> HIDE DEF l, p, N, a, last, d
  <2> QED
    BY <2>1, <2>2, <2>3
<1>7. PICK f \in Slices(rows, a, d) :
         page = [items |-> [i \in 1..d |-> f[i].id], page |-> n + 1, total |-> N, pages |-> PageCount(N)]
  <2> DEFINE k == n + 1
             from == (k - 1) * RcPageSize
             size == Max({0, Min({N, k * RcPageSize}) - from})
  <2>1. k - 1 = n
    OBVIOUS
  <2>2. Queried(rows, k) = {[items |-> [i \in 1..size |-> f[i].id], page |-> k, total |-> N,
                             pages |-> PageCount(N)] : f \in Slices(rows, from, size)}
    BY Zenon DEF Queried
  <2>3. from = a
    BY <2>1
  <2>4. size = d
    BY <2>3, Zenon
  <2> HIDE DEF k, from, size, a, d, last, N
  <2>5. page \in Queried(rows, k)
    BY DEF k
  <2>6. PICK f \in Slices(rows, from, size) :
           page = [items |-> [i \in 1..size |-> f[i].id], page |-> k, total |-> N, pages |-> PageCount(N)]
    BY <2>2, <2>5
  <2> QED
    BY <2>3, <2>4, <2>6 DEF k
<1> HIDE DEF d, last, a
<1>8. \A i \in 1..d : f[i] \in AtPlace(rows, a + i)
  BY <1>7 DEF Slices
<1>9. /\ page.items = [i \in 1..d |-> page.items[i]] /\ \A i \in 1..d : page.items[i] = f[i].id
      /\ page.page = n + 1 /\ page.pages = PageCount(N)
  BY <1>7
<1>10. \A i \in 1..d : \E r \in AtPlace(rows, a + i) : page.items[i] = r.id
  BY <1>8, <1>9
<1> DEFINE e == Upto(N, n + 1) - Upto(N, n)
<1>11. e = d
  BY <1>6
<1> HIDE DEF e, N
<1>12. /\ page.items = [i \in 1..e |-> page.items[i]]
       /\ \A i \in 1..e : \E r \in AtPlace(rows, a + i) : page.items[i] = r.id
  BY <1>9, <1>10, <1>11
<1>13. page.page = n + 1 /\ page.pages = PageCount(N) /\ N \in Nat
  BY <1>1, <1>9
<1>14. QED
  BY <1>12, <1>13 DEF a, e, N


(* A concatenation, item by item.                                          *)
LEMMA ConcatList ==
    ASSUME NEW S, NEW p \in Seq(S), NEW q \in Seq(S)
    PROVE  p \o q = [i \in 1..(Len(p) + Len(q)) |-> IF i <= Len(p) THEN p[i] ELSE q[i - Len(p)]]
<1> DEFINE r == p \o q
<1>1. r \in Seq(S) /\ Len(r) = Len(p) + Len(q)
  BY ConcatProperties
<1>2. \A i \in 1..(Len(p) + Len(q)) : r[i] = IF i <= Len(p) THEN p[i] ELSE q[i - Len(p)]
  BY ConcatProperties
<1> HIDE DEF r
<1>3. r = [i \in 1..(Len(p) + Len(q)) |-> r[i]]
  <2>1. DOMAIN r = 1..(Len(p) + Len(q)) /\ r \in [DOMAIN r -> S]
    BY <1>1, LenProperties, ElementOfSeq
  <2> QED
    BY <2>1
<1>4. QED
  BY <1>2, <1>3 DEF r

(* The items of the first n pages.                                         *)
IdAt(p, j) == p[(j - 1) \div RcPageSize + 1].items[((j - 1) % RcPageSize) + 1]
FirstIds(p, N, n) == [j \in 1..Upto(N, n) |-> IdAt(p, j)]

(* The items of the page after n pages are the ones after theirs.          *)
LEMMA ItemsOfPage ==
    ASSUME NEW p, NEW n \in Nat, NEW i \in Nat, 0 < i, i <= RcPageSize
    PROVE  IdAt(p, n * RcPageSize + i) = p[n + 1].items[i]
<1> DEFINE x == n * RcPageSize
           c == i - 1
<1>1. x \in Nat /\ RcPageSize \in Nat
  BY RcAssumption
<1>2. c \in Nat /\ c < RcPageSize /\ c + 1 = i
  BY <1>1
<1>3. (x + i) - 1 = x + c
  <2> HIDE DEF x
  <2> QED
    BY <1>1
<1> HIDE DEF c
<1>4. (x + c) \div RcPageSize = n /\ (x + c) % RcPageSize = c
  BY <1>2, OnlyPagesAndRest
<1> HIDE DEF x
<1>5. IdAt(p, x + i) = p[n + 1].items[i]
  BY <1>2, <1>3, <1>4 DEF IdAt
<1> QED
  BY <1>5 DEF x

LEMMA NextItems ==
    ASSUME NEW rows, IsFiniteSet(rows), NEW n \in Nat, NEW p, p[n + 1] \in Queried(rows, n + 1)
    PROVE  LET N == Cardinality(rows)
           IN /\ FirstIds(p, N, n) \o p[n + 1].items = FirstIds(p, N, n + 1)
              /\ n = 0 => p[n + 1].items = FirstIds(p, N, n + 1)
<1> DEFINE N == Cardinality(rows)
           id == [j \in 1..N |-> IdAt(p, j)]
           u == Upto(N, n)
           v == Upto(N, n + 1)
           a == n * RcPageSize
           f == [j \in 1..u |-> id[j]]
           g == [j \in 1..v |-> id[j]]
           h == [i \in 1..(v - u) |-> id[u + i]]
<1>1. N \in Nat
  BY FS_CardinalityType
<1>2. /\ u = IF N < a THEN N ELSE a
      /\ v = IF N < a + RcPageSize THEN N ELSE a + RcPageSize
      /\ a \in Nat /\ RcPageSize \in Nat
      /\ n = 0 => a = 0
  <2>1. n = 0 => a = 0
    BY <1>1, UptoIsCount
  <2> QED
    BY <1>1, <2>1, UptoIsCount DEF Upto
<1>3. /\ u \in Nat /\ v \in Nat /\ u <= v /\ v <= N /\ (u < v => u = a) /\ (n = 0 => u = 0)
      /\ v - u <= RcPageSize
  <2> DEFINE r == RcPageSize
  <2> HIDE DEF N, u, v, a, r
  <2> QED
    BY <1>1, <1>2 DEF r
<1>4. FirstIds(p, N, n) = f /\ FirstIds(p, N, n + 1) = g
  <2> HIDE DEF N, u, v
  <2>1. /\ [j \in 1..u |-> IdAt(p, j)] = [j \in 1..u |-> id[j]]
        /\ [j \in 1..v |-> IdAt(p, j)] = [j \in 1..v |-> id[j]]
    BY <1>1, <1>3
  <2> QED
    BY <2>1 DEF FirstIds, u, v
<1>5. p[n + 1].items = h
  <2>1. p[n + 1].items = [i \in 1..(v - u) |-> p[n + 1].items[i]]
    <3> DEFINE page == p[n + 1]
    <3>1. page \in Queried(rows, n + 1)
      OBVIOUS
    <3> HIDE DEF page
    <3>2. page.items = [i \in 1..(v - u) |-> page.items[i]]
      BY <3>1, QueriedItems, SMTT(30)
    <3> QED
      BY <3>2 DEF page
  <2>2. \A i \in 1..(v - u) : i \in Nat /\ 0 < i /\ i <= RcPageSize /\ a + i = u + i /\ u + i \in 1..N
    <3> HIDE DEF N, u, v, a
    <3> QED
      BY <1>1, <1>2, <1>3
  <2>3. \A i \in 1..(v - u) : p[n + 1].items[i] = id[u + i]
    <3> SUFFICES ASSUME NEW i \in 1..(v - u) PROVE p[n + 1].items[i] = id[u + i]
      OBVIOUS
    <3>1. i \in Nat /\ 0 < i /\ i <= RcPageSize /\ a + i = u + i /\ u + i \in 1..N
      BY <2>2
    <3>2. IdAt(p, a + i) = p[n + 1].items[i]
      BY <3>1, ItemsOfPage
    <3> HIDE DEF N, u, v, a
    <3> QED
      BY <3>1, <3>2
  <2> HIDE DEF N, u, v, a, id
  <2> QED
    BY <2>1, <2>3
<1> HIDE DEF u, v, a, N, id
<1>6. f \in Seq(Range(id)) /\ h \in Seq(Range(id)) /\ Len(f) = u /\ Len(h) = v - u
  <2>1. DOMAIN id = 1..N
    BY DEF id
  <2>2. \A j \in 1..N : id[j] \in Range(id)
    BY <2>1 DEF Range
  <2>3. f \in [1..u -> Range(id)]
    BY <1>1, <1>3, <2>2
  <2>4. h \in [1..(v - u) -> Range(id)] /\ v - u \in Nat
    <3>1. \A i \in 1..(v - u) : u + i \in 1..N
      BY <1>1, <1>3
    <3> QED
      BY <1>3, <2>2, <3>1
  <2>5. f \in Seq(Range(id)) /\ h \in Seq(Range(id))
    BY <1>3, <2>3, <2>4, SeqDef
  <2>6. DOMAIN f = 1..u /\ DOMAIN h = 1..(v - u)
    OBVIOUS
  <2> HIDE DEF f, h
  <2> QED
    BY <1>3, <2>4, <2>5, <2>6, LenProperties
<1>7. f \o h = g
  <2>1. f \o h = [i \in 1..(Len(f) + Len(h)) |-> IF i <= Len(f) THEN f[i] ELSE h[i - Len(f)]]
    BY <1>6, ConcatList
  <2>2. Len(f) + Len(h) = v
    BY <1>3, <1>6
  <2>3. \A i \in 1..v : (IF i <= Len(f) THEN f[i] ELSE h[i - Len(f)]) = id[i]
    <3>1. ASSUME NEW i \in 1..v, i <= u PROVE f[i] = id[i]
      BY <1>3, <3>1
    <3>2. ASSUME NEW i \in 1..v, ~(i <= u) PROVE h[i - u] = id[i]
      <4>1. i - u \in 1..(v - u) /\ u + (i - u) = i
        BY <1>3, <3>2
      <4> QED
        BY <4>1
    <3> HIDE DEF f, h
    <3> QED
      BY <1>6, <3>1, <3>2
  <2> HIDE DEF f, h
  <2> QED
    BY <2>1, <2>2, <2>3
<1>8. n = 0 => h = g
  <2>1. n = 0 => u = 0 /\ v - u = v /\ \A i \in 1..v : u + i = i
    BY <1>3
  <2> QED
    BY <1>3, <2>1
<1>9. QED
  BY <1>4, <1>5, <1>7, <1>8 DEF N

(* What is loaded: the items of the pages, one page after the other.       *)
LEMMA LoadedItems ==
    ASSUME NEW rows, IsFiniteSet(rows), NEW p, p # <<>>, FirstPages(rows, p)
    PROVE  /\ Len(p) \in Nat /\ Len(p) > 0
           /\ ItemsOf(p) = FirstIds(p, Cardinality(rows), Len(p))
<1> DEFINE n == Len(p)
           N == Cardinality(rows)
           seqs == [i \in DOMAIN p |-> p[i].items]
           Rule(f) == f = [i \in 1..n |-> IF i = 1 THEN seqs[i] ELSE f[i - 1] \o seqs[i]]
           g == [i \in 1..n |-> FirstIds(p, N, i)]
           f == CHOOSE f : Rule(f)
<1>1. n \in Nat /\ DOMAIN p = 1..n /\ n > 0
  <2>1. p \in Seq(Range(p))
    BY DEF FirstPages, PagesFrom, IsList
  <2>2. n \in Nat /\ DOMAIN p = 1..n
    BY <2>1, LenProperties
  <2>3. n # 0
    BY <2>1, EmptySeq
  <2> QED
    BY <2>2, <2>3
<1>2. \A i \in 1..n : p[i] \in Queried(rows, i) /\ seqs[i] = p[i].items
  <2>1. \A i \in 1..n : p[i] \in Queried(rows, 0 + i)
    BY DEF FirstPages, PagesFrom
  <2> QED
    BY <1>1, <2>1
<1>3. Len(seqs) = n
  <2> DEFINE T == Range(seqs)
  <2>1. DOMAIN seqs = 1..n
    BY <1>1
  <2>2. seqs \in [1..n -> T]
    BY <1>1 DEF Range
  <2>3. seqs \in Seq(T)
    BY <1>1, <2>2, SeqDef
  <2> HIDE DEF seqs, T
  <2> QED
    BY <1>1, <2>1, <2>3, LenProperties
<1>4. Rule(g)
  <2>1. ASSUME NEW i \in 1..n
        PROVE  FirstIds(p, N, i) = IF i = 1 THEN seqs[i] ELSE g[i - 1] \o seqs[i]
    <3> DEFINE k == i - 1
    <3>1. k \in Nat /\ k + 1 = i /\ (i = 1 <=> k = 0)
      OBVIOUS
    <3>2. i # 1 => g[k] = FirstIds(p, N, k)
      OBVIOUS
    <3> HIDE DEF g, seqs, k, N
    <3>3. p[k + 1] \in Queried(rows, k + 1)
      BY <1>2, <3>1
    <3>4. /\ FirstIds(p, N, k) \o p[k + 1].items = FirstIds(p, N, k + 1)
          /\ k = 0 => p[k + 1].items = FirstIds(p, N, k + 1)
      BY <3>1, <3>3, NextItems DEF N
    <3>5. FirstIds(p, N, i) = IF i = 1 THEN seqs[i] ELSE g[k] \o seqs[i]
      BY <1>2, <3>1, <3>2, <3>4
    <3> QED
      BY <3>5 DEF k
  <2> QED
    BY <2>1
<1>5. FlattenSeq(seqs) = f[n]
  <2> HIDE DEF seqs, n
  <2> QED
    BY <1>1, <1>3 DEF FlattenSeq
<1>6. Rule(f)
  <2> HIDE DEF Rule, g
  <2> QED
    BY <1>4
<1>7. \A i \in 1..n : f[i] = g[i]
  <2> HIDE DEF f, g, seqs, n
  <2>1. f = [i \in 1..n |-> IF i = 1 THEN seqs[i] ELSE f[i - 1] \o seqs[i]]
    BY <1>6
  <2>2. g = [i \in 1..n |-> IF i = 1 THEN seqs[i] ELSE g[i - 1] \o seqs[i]]
    BY <1>4
  <2>3. \A i \in 1..n : /\ f[i] = IF i = 1 THEN seqs[i] ELSE f[i - 1] \o seqs[i]
                        /\ g[i] = IF i = 1 THEN seqs[i] ELSE g[i - 1] \o seqs[i]
    BY <2>1, <2>2
  <2>4. \A i \in 1..n : (i = 1 \/ f[i - 1] = g[i - 1]) => f[i] = g[i]
    BY <2>3
  <2> HIDE DEF Rule
  <2>5. n \in Nat
    BY <1>1
  <2> QED
    BY <2>4, <2>5, SameSteps, SMTT(30)
<1>8. f[n] = FirstIds(p, N, n)
  <2> HIDE DEF f
  <2> QED
    BY <1>1, <1>7
<1>9. QED
  BY <1>1, <1>5, <1>8 DEF ItemsOf

(* With the last page there are as many rows as there are, each where it   *)
(* can be.                                                                 *)
LEMMA AllLoaded ==
    ASSUME NEW rows, IsFiniteSet(rows), NEW p, p # <<>>, FirstPages(rows, p), ~HasNext(p)
    PROVE  /\ Len(ItemsOf(p)) = Cardinality(rows)
           /\ \A j \in DOMAIN ItemsOf(p) : \E r \in AtPlace(rows, j) : r.id = ItemsOf(p)[j]
<1> DEFINE n == Len(p)
           N == Cardinality(rows)
           ids == ItemsOf(p)
<1>1. n \in Nat /\ n > 0 /\ ids = FirstIds(p, N, n) /\ N \in Nat
  BY LoadedItems, FS_CardinalityType
<1>2. \A i \in 1..n : p[i] \in Queried(rows, i)
  <2>1. \A i \in 1..n : p[i] \in Queried(rows, 0 + i)
    BY DEF FirstPages, PagesFrom
  <2> QED
    BY <1>1, <2>1
<1>3. N <= n * RcPageSize
  <2> DEFINE k == n - 1
  <2>1. k \in Nat /\ k + 1 = n /\ n \in 1..n
    BY <1>1
  <2> HIDE DEF k, n
  <2>2. p[k + 1] \in Queried(rows, k + 1)
    BY <1>2, <2>1
  <2>3. p[k + 1].page = k + 1 /\ p[k + 1].pages = PageCount(N)
    BY <2>1, <2>2, QueriedItems
  <2>4. ~(n < PageCount(N))
    BY <2>1, <2>3 DEF HasNext, Last, n
  <2> QED
    BY <1>1, <2>4, PagesAreEnough
<1>4. Upto(N, n) = N
  <2>1. n * RcPageSize \in Nat
    BY <1>1, UptoIsCount
  <2> DEFINE b == n * RcPageSize
  <2>2. (IF N < b THEN N ELSE b) = N
    <3> HIDE DEF b, N
    <3> QED
      BY <1>1, <1>3, <2>1 DEF b
  <2> QED
    BY <2>2 DEF Upto
<1>5. DOMAIN ids = 1..N /\ \A j \in 1..N : ids[j] = IdAt(p, j)
  BY <1>1, <1>4 DEF FirstIds
<1> HIDE DEF ids, n, N
<1>6. Len(ids) = N
  <2>1. ids = [j \in 1..N |-> IdAt(p, j)]
    BY <1>1, <1>4 DEF FirstIds
  <2>2. \A j \in 1..N : IdAt(p, j) \in Range(ids)
    BY <1>5 DEF Range
  <2>3. ids \in [1..N -> Range(ids)]
    BY <2>1, <2>2
  <2>4. ids \in Seq(Range(ids))
    BY <1>1, <2>3, SeqDef
  <2>5. Len(ids) \in Nat /\ DOMAIN ids = 1..Len(ids)
    BY <2>4, LenProperties
  <2> QED
    BY <1>1, <1>5, <2>5
<1>7. ASSUME NEW j \in 1..N PROVE \E r \in AtPlace(rows, j) : r.id = IdAt(p, j)
  <2> DEFINE x == j - 1
             k == x \div RcPageSize
             c == x % RcPageSize
             a == k * RcPageSize
             i == c + 1
  <2>1. x \in Nat /\ x + 1 = j
    BY <1>1
  <2> HIDE DEF x
  <2>2. k \in Nat /\ c \in Nat /\ c < RcPageSize /\ x = a + c
    BY <2>1, PagesAndRest
  <2> HIDE DEF k, c
  <2>3. /\ a \in Nat /\ (k + 1) * RcPageSize = a + RcPageSize /\ RcPageSize \in Nat
        /\ Upto(N, k) = (IF N < a THEN N ELSE a)
        /\ Upto(N, k + 1) = (IF N < a + RcPageSize THEN N ELSE a + RcPageSize)
    BY <1>1, <2>2, UptoIsCount DEF Upto
  <2>4. k + 1 \in 1..n
    <3> SUFFICES ASSUME n <= k PROVE FALSE
      BY <1>1, <2>2
    <3>1. k - n \in Nat
      BY <1>1, <2>2
    <3>2. (k - n) * RcPageSize \in Nat
      BY <2>3, <3>1
    <3>3. (k - n) * RcPageSize = a - n * RcPageSize /\ n * RcPageSize \in Nat
      BY <1>1, <2>2, <2>3
    <3> DEFINE b == n * RcPageSize
    <3>4. b \in Nat /\ a - b \in Nat /\ N <= b
      BY <1>3, <3>2, <3>3
    <3> HIDE DEF a, b
    <3> QED
      BY <1>1, <2>1, <2>2, <2>3, <3>4
  <2> HIDE DEF a
  <2>5. i \in Nat /\ 0 < i /\ i <= RcPageSize /\ a + i = j /\ i \in 1..(Upto(N, k + 1) - Upto(N, k))
    BY <1>1, <2>1, <2>2, <2>3
  <2> HIDE DEF i
  <2>6. p[k + 1] \in Queried(rows, k + 1)
    BY <1>2, <2>4
  <2>7. \E r \in AtPlace(rows, a + i) : p[k + 1].items[i] = r.id
    <3>1. \A l \in 1..(Upto(N, k + 1) - Upto(N, k)) :
             \E r \in AtPlace(rows, k * RcPageSize + l) : p[k + 1].items[l] = r.id
      <4> DEFINE page == p[k + 1]
      <4>1. page \in Queried(rows, k + 1) /\ k \in Nat
        BY <2>2, <2>6
      <4> HIDE DEF page
      <4>2. \A l \in 1..(Upto(N, k + 1) - Upto(N, k)) :
               \E r \in AtPlace(rows, k * RcPageSize + l) : page.items[l] = r.id
        BY <4>1, QueriedItems, ZenonT(40) DEF N
      <4> QED
        BY <4>2 DEF page
    <3> QED
      BY <2>5, <3>1 DEF a
  <2>8. IdAt(p, a + i) = p[k + 1].items[i]
    BY <2>2, <2>5, ItemsOfPage DEF a
  <2> QED
    BY <2>5, <2>7, <2>8
<1>8. QED
  BY <1>5, <1>6, <1>7 DEF ids, N

-----------------------------------------------------------------------------
(* The invariant.                                                          *)

LEMMA NoPages == \A rows, n : PagesFrom(rows, <<>>, n)
BY DEF PagesFrom, IsList

(* Pages after pages are pages.                                            *)
LEMMA MorePages ==
    ASSUME NEW rows, NEW p, NEW q, FirstPages(rows, p), PagesFrom(rows, q, Len(p))
    PROVE  /\ FirstPages(rows, p \o q)
           /\ Len(p) \in Nat /\ Len(q) \in Nat /\ Len(p \o q) = Len(p) + Len(q)
<1> DEFINE S == Range(p) \cup Range(q)
           r == p \o q
<1>1. p \in Seq(Range(p)) /\ q \in Seq(Range(q))
  BY DEF FirstPages, PagesFrom, IsList
<1>2. p \in Seq(S) /\ q \in Seq(S)
  BY <1>1
<1> HIDE DEF S
<1>3. r \in Seq(S) /\ Len(p) \in Nat /\ Len(q) \in Nat /\ Len(r) = Len(p) + Len(q)
  BY <1>2, ConcatProperties, LenProperties
<1>4. IsList(r)
  <2> HIDE DEF r
  <2>1. DOMAIN r = 1..Len(r) /\ r \in [1..Len(r) -> S] /\ Len(r) \in Nat
    BY <1>3, LenProperties
  <2>2. \A i \in 1..Len(r) : r[i] \in Range(r)
    BY <2>1 DEF Range
  <2>3. r \in [1..Len(r) -> Range(r)]
    BY <2>1, <2>2
  <2> QED
    BY <2>1, <2>3, SeqDef DEF IsList
<1>5. \A i \in 1..(Len(p) + Len(q)) : r[i] = IF i <= Len(p) THEN p[i] ELSE q[i - Len(p)]
  BY <1>2, ConcatProperties
<1>6. ASSUME NEW i \in 1..Len(r) PROVE r[i] \in Queried(rows, 0 + i)
  <2> HIDE DEF r
  <2>1. CASE i <= Len(p)
    BY <1>3, <1>5, <2>1 DEF FirstPages, PagesFrom
  <2>2. CASE ~(i <= Len(p))
    <3>1. i - Len(p) \in 1..Len(q) /\ Len(p) + (i - Len(p)) = 0 + i
      BY <1>3, <2>2
    <3>2. q[i - Len(p)] \in Queried(rows, Len(p) + (i - Len(p)))
      BY <3>1 DEF PagesFrom
    <3> QED
      BY <1>3, <1>5, <2>2, <3>1, <3>2
  <2> QED
    BY <2>1, <2>2
<1>7. QED
  BY <1>3, <1>4, <1>6 DEF FirstPages, PagesFrom

(* The next page is asked for by its number.                               *)
LEMMA NextPage ==
    ASSUME NEW rows, IsFiniteSet(rows), NEW p, NEW q, FirstPages(rows, p), PagesFrom(rows, q, Len(p))
    PROVE  LET so == p \o q
               n == IF so = <<>> THEN 1 ELSE Last(so).page + 1
           IN \A page \in Queried(rows, n) :
                 PagesFrom(rows, Append(q, page), Len(p)) /\ Append(q, page) # <<>>
<1> DEFINE so == p \o q
           n == IF so = <<>> THEN 1 ELSE Last(so).page + 1
<1> SUFFICES ASSUME NEW x \in Queried(rows, n)
             PROVE  PagesFrom(rows, Append(q, x), Len(p)) /\ Append(q, x) # <<>>
  OBVIOUS
<1> DEFINE S == Range(q) \cup {x}
           r == Append(q, x)
<1>1. /\ FirstPages(rows, so)
      /\ Len(p) \in Nat /\ Len(q) \in Nat /\ Len(so) = Len(p) + Len(q)
  BY MorePages
<1>2. n = Len(p) + (Len(q) + 1)
  <2> HIDE DEF so
  <2>1. CASE so = <<>>
    <3>1. Len(so) = 0
      BY <2>1
    <3> QED
      BY <1>1, <2>1, <3>1
  <2>2. CASE so # <<>>
    <3>1. so \in Seq(Range(so))
      BY <1>1 DEF FirstPages, PagesFrom, IsList
    <3>2. Len(so) \in Nat /\ Len(so) # 0
      BY <2>2, <3>1, EmptySeq, LenProperties
    <3>3. so[Len(so)] \in Queried(rows, 0 + Len(so))
      BY <1>1, <3>2 DEF FirstPages, PagesFrom
    <3>4. so[Len(so)].page = Len(so)
      <4> DEFINE k == Len(so) - 1
      <4>1. k \in Nat /\ k + 1 = Len(so)
        BY <3>2
      <4>2. so[Len(so)] \in Queried(rows, k + 1)
        BY <3>2, <3>3, <4>1
      <4> HIDE DEF k
      <4> QED
        BY <4>1, <4>2, QueriedItems
    <3>5. Last(so).page = Len(so)
      BY <3>2, <3>3, <3>4 DEF Last
    <3> QED
      BY <1>1, <2>2, <3>5
  <2> QED
    BY <2>1, <2>2
<1> HIDE DEF n, so
<1>3. q \in Seq(S) /\ x \in S
  BY DEF PagesFrom, IsList
<1> HIDE DEF S
<1>4. /\ r \in Seq(S) /\ Len(r) = Len(q) + 1 /\ \A i \in 1..Len(q) : r[i] = q[i]
      /\ r[Len(q) + 1] = x
  BY <1>3, AppendProperties
<1> HIDE DEF r
<1>5. IsList(r)
  <2>1. DOMAIN r = 1..Len(r) /\ r \in [1..Len(r) -> S] /\ Len(r) \in Nat
    BY <1>4, LenProperties
  <2>2. \A i \in 1..Len(r) : r[i] \in Range(r)
    BY <2>1 DEF Range
  <2>3. r \in [1..Len(r) -> Range(r)]
    BY <2>1, <2>2
  <2> QED
    BY <2>1, <2>3, SeqDef DEF IsList
<1>6. ASSUME NEW i \in 1..Len(r) PROVE r[i] \in Queried(rows, Len(p) + i)
  <2>1. CASE i \in 1..Len(q)
    BY <1>4, <2>1 DEF PagesFrom
  <2>2. CASE i \notin 1..Len(q)
    <3>1. i = Len(q) + 1
      BY <1>1, <1>4, <2>2
    <3> QED
      BY <1>2, <1>4, <3>1
  <2> QED
    BY <2>1, <2>2
<1>7. r # <<>>
  <2>1. Len(r) # 0
    BY <1>1, <1>4
  <2> QED
    BY <2>1
<1>8. QED
  BY <1>5, <1>6, <1>7 DEF PagesFrom, r


LEMMA RowsStayFinite ==
    ASSUME NEW rows, IsFiniteSet(rows)
    PROVE  \A ids : IsFiniteSet(Without(rows, ids)) /\ IsFiniteSet(Reordered(rows, ids))
<1>1. ASSUME NEW ids PROVE IsFiniteSet(Without(rows, ids))
  BY FS_Subset DEF Without
<1>2. ASSUME NEW ids PROVE IsFiniteSet(Reordered(rows, ids))
  <2> DEFINE f == [r \in rows |->
                     IF r.id \in Range(ids) THEN [r EXCEPT !.order = (CHOOSE i \in DOMAIN ids : ids[i] = r.id) - 1]
                     ELSE r]
  <2>1. Reordered(rows, ids) = {f[r] : r \in rows}
    BY DEF Reordered
  <2>2. DOMAIN f = rows
    OBVIOUS
  <2> HIDE DEF f
  <2> QED
    BY <2>1, <2>2, FiniteImage
<1>3. QED
  BY <1>1, <1>2


LEMMA RcInitInv == RcInit => RcInv
<1> SUFFICES ASSUME RcInit PROVE RcInv
  OBVIOUS
<1> DEFINE rows == {[id |-> k, seq |-> k, order |-> k] : k \in 1..RcStart}
<1>1. IsFiniteSet(rows)
  <2> DEFINE f == [k \in 1..RcStart |-> [id |-> k, seq |-> k, order |-> k]]
  <2>1. rows = {f[k] : k \in 1..RcStart}
    OBVIOUS
  <2>2. DOMAIN f = 1..RcStart /\ IsFiniteSet(1..RcStart)
    <3>1. RcStart \in Int
      BY RcAssumption
    <3> QED
      BY <3>1, FS_Interval
  <2> HIDE DEF f, rows
  <2> QED
    BY <2>1, <2>2, FiniteImage
<1> HIDE DEF rows
<1>2. rc = [rows |-> rows, made |-> RcStart, pages |-> <<>>,
            fetch |-> [want |-> 1, old |-> <<>>, got |-> <<>>, whole |-> TRUE],
            net |-> {}, sent |-> 0, gone |-> {}, torn |-> FALSE, ops |-> RcOps]
  BY DEF RcInit, rows
<1>3. RcShape(rc)
  BY <1>1, <1>2 DEF RcShape
<1>4. rc.fetch # NoFetch
  BY <1>2 DEF NoFetch
<1>5. QED
  BY <1>2, <1>3, <1>4, NoPages DEF RcInv, RcSound, FirstPages

(* Nothing is to be shown while a request is under way, ...                *)
LEMMA BusyIsSound ==
    ASSUME NEW t, RcShape(t), t.net # {}
    PROVE  RcSound(t)
BY DEF RcSound

(* ... when the pages are known not to be the rows, ...                    *)
LEMMA TornIsSound ==
    ASSUME NEW s, RcShape(s)
    PROVE  RcShape(Torn(s)) /\ RcSound(Torn(s)) /\ Torn(s).net = s.net
<1> DEFINE t == Torn(s)
<1> DEFINE ff == [s.fetch EXCEPT !.whole = FALSE]
<1>1. t = [s EXCEPT !.torn = TRUE, !.fetch = ff]
  BY DEF Torn, RcShape
<1>2. ff \in [want : {s.fetch.want}, old : {s.fetch.old}, got : {s.fetch.got}, whole : {FALSE}]
  BY DEF RcShape
<1> HIDE DEF ff
<1>3. t \in [rows : {s.rows}, made : {s.made}, pages : {s.pages}, fetch : {ff}, net : {s.net},
             sent : {s.sent}, gone : {s.gone}, torn : {TRUE}, ops : {s.ops}]
  BY <1>1 DEF RcShape
<1> HIDE DEF t
<1>4. RcShape(t) /\ t.torn /\ ~t.fetch.whole /\ t.net = s.net
  BY <1>2, <1>3 DEF RcShape
<1>5. RcSound(t)
  BY <1>4 DEF RcSound
<1>6. QED
  BY <1>4, <1>5 DEF t

(* ... and when all of them are fetched anew.                              *)
LEMMA InvalidatedIsSound ==
    ASSUME NEW s, RcShape(s)
    PROVE  /\ RcShape(RowsInvalidated(s)) /\ RcSound(RowsInvalidated(s))
           /\ RowsInvalidated(s).net = s.net
<1>1. CASE s.pages = <<>>
  BY <1>1, TornIsSound DEF RowsInvalidated
<1>2. CASE s.pages # <<>>
  <2> DEFINE new == [want |-> Len(s.pages), old |-> <<>>, got |-> <<>>, whole |-> TRUE]
             t == [s EXCEPT !.fetch = new]
  <2>1. RowsInvalidated(s) = t
    BY <1>2 DEF RowsInvalidated
  <2> HIDE DEF new
  <2>2. /\ t.fetch = new /\ t.net = s.net /\ t.rows = s.rows /\ t.torn = s.torn
        /\ t \in [rows : {s.rows}, made : {s.made}, pages : {s.pages}, fetch : {new}, net : {s.net},
                sent : {s.sent}, gone : {s.gone}, torn : {s.torn}, ops : {s.ops}]
    BY DEF RcShape
  <2> HIDE DEF t
  <2>3. RcShape(t)
    BY <2>2 DEF RcShape, new
  <2>4. new # NoFetch
    BY DEF new, NoFetch
  <2>5. RcSound(t)
    BY <2>2, <2>3, <2>4, NoPages DEF RcSound, new, FirstPages
  <2> QED
    BY <2>1, <2>2, <2>3, <2>5
<1>3. QED
  BY <1>1, <1>2


LEMMA SendsSound ==
    ASSUME RcInv, NEW do, NEW ids, Sends(do, ids)
    PROVE  RcInv'
<1> DEFINE new == [nth |-> rc.sent + 1, do |-> do, ids |-> ids, row |-> ids[1],
                   top |-> Null, failed |-> FALSE]
           t == [rc EXCEPT !.ops = @ - 1, !.sent = @ + 1, !.net = @ \cup {new}]
<1>1. rc' = t
  BY DEF Sends
<1> HIDE DEF new
<1>2. RcShape(rc)
  BY DEF RcInv, RcSound
<1>3. t \in [rows : {rc.rows}, made : {rc.made}, pages : {rc.pages}, fetch : {rc.fetch},
             net : {rc.net \cup {new}}, sent : {rc.sent + 1}, gone : {rc.gone}, torn : {rc.torn},
             ops : {rc.ops - 1}]
  BY <1>2 DEF RcShape
<1> HIDE DEF t
<1>4. RcShape(t) /\ t.net # {}
  BY <1>2, <1>3 DEF RcShape
<1>5. RcSound(t)
  BY <1>4, BusyIsSound
<1>6. QED
  BY <1>1, <1>5 DEF RcInv

LEMMA RowUserSound == RcInv /\ RowUser => RcInv'
<1> SUFFICES ASSUME RcInv, RowUser PROVE RcInv'
  OBVIOUS
<1>1. CASE CreateOne
  BY <1>1, SendsSound DEF CreateOne
<1>2. CASE BulkAdd
  BY <1>2, SendsSound DEF BulkAdd
<1>3. CASE DeleteOne
  BY <1>3, SendsSound DEF DeleteOne
<1>4. CASE BulkDelete
  BY <1>4, SendsSound DEF BulkDelete
<1>5. CASE DuplicateRows
  BY <1>5, SendsSound DEF DuplicateRows
<1>6. CASE ReorderRows
  BY <1>6, SendsSound DEF ReorderRows
<1>7. QED
  BY <1>1, <1>2, <1>3, <1>4, <1>5, <1>6 DEF RowUser

(* The server may have changed the rows in any way: its request is still   *)
(* under way.                                                              *)
LEMMA HandledSound ==
    ASSUME NEW s, RcShape(s), NEW m, NEW rest, NEW failed, Handled(m, s, rest, failed)
    PROVE  RcInv'
<1> DEFINE new == [m EXCEPT !.ids = rest, !.failed = failed, !.top = Null]
           t == [s EXCEPT !.net = (@ \ {m}) \cup {new}]
<1>1. rc' = t
  BY DEF Handled
<1> HIDE DEF new
<1>2. t \in [rows : {s.rows}, made : {s.made}, pages : {s.pages}, fetch : {s.fetch},
           net : {(s.net \ {m}) \cup {new}},
           sent : {s.sent}, gone : {s.gone}, torn : {s.torn}, ops : {s.ops}]
  BY DEF RcShape
<1> HIDE DEF t
<1>3. RcShape(t) /\ t.net # {}
  BY <1>2 DEF RcShape
<1>4. RcSound(t)
  BY <1>3, BusyIsSound
<1>5. QED
  BY <1>1, <1>4 DEF RcInv

LEMMA ChangedRows ==
    ASSUME NEW s, RcShape(s), NEW rows, IsFiniteSet(rows), NEW made
    PROVE  RcShape([s EXCEPT !.rows = rows, !.made = made]) /\ RcShape([s EXCEPT !.rows = rows])
<1> DEFINE t == [s EXCEPT !.rows = rows, !.made = made]
           u == [s EXCEPT !.rows = rows]
<1>1. /\ t \in [rows : {rows}, made : {made}, pages : {s.pages}, fetch : {s.fetch}, net : {s.net},
               sent : {s.sent}, gone : {s.gone}, torn : {s.torn}, ops : {s.ops}]
      /\ u \in [rows : {rows}, made : {s.made}, pages : {s.pages}, fetch : {s.fetch}, net : {s.net},
               sent : {s.sent}, gone : {s.gone}, torn : {s.torn}, ops : {s.ops}]
  BY DEF RcShape
<1> HIDE DEF t, u
<1>2. RcShape(t) /\ RcShape(u)
  BY <1>1 DEF RcShape
<1>3. QED
  BY <1>2 DEF t, u

LEMMA AddedShape ==
    ASSUME NEW s, RcShape(s), NEW top, NEW n \in Nat
    PROVE  RcShape(Added(s, top, n))
<1> DEFINE more == {[id |-> s.made + k, seq |-> top + k, order |-> top + k] : k \in 1..n}
<1>1. IsFiniteSet(s.rows)
  BY DEF RcShape
<1>2. IsFiniteSet(more)
  <2> DEFINE f == [k \in 1..n |-> [id |-> s.made + k, seq |-> top + k, order |-> top + k]]
  <2>1. more = {f[k] : k \in 1..n}
    OBVIOUS
  <2>2. DOMAIN f = 1..n /\ IsFiniteSet(1..n)
    BY FS_Interval
  <2> HIDE DEF f, more
  <2> QED
    BY <2>1, <2>2, FiniteImage
<1>3. IsFiniteSet(s.rows \cup more)
  BY <1>1, <1>2, FS_Union
<1>4. Added(s, top, n) = [s EXCEPT !.rows = s.rows \cup more, !.made = s.made + n]
  <2>1. Added(s, top, n) = [s EXCEPT !.rows = @ \cup {[id |-> s.made + k, seq |-> top + k, order |-> top + k] : k \in 1..n},
                                !.made = @ + n]
    BY DEF Added
  <2> QED
    BY <2>1 DEF RcShape
<1> DEFINE all == s.rows \cup more
           made == s.made + n
<1>5. IsFiniteSet(all) /\ Added(s, top, n) = [s EXCEPT !.rows = all, !.made = made]
  BY <1>3, <1>4
<1> HIDE DEF more, all, made
<1>6. RcShape([s EXCEPT !.rows = all, !.made = made])
  BY <1>5, ChangedRows
<1>7. QED
  BY <1>5, <1>6

LEMMA RequestSound ==
    ASSUME RcInv, NEW m \in rc.net,
           ReadTop(m) \/ CreateRow(m) \/ BulkCreateRows(m) \/ DeleteRows(m) \/ ReorderHandled(m)
    PROVE  RcInv'
<1>1. RcShape(rc) /\ IsFiniteSet(rc.rows)
  BY DEF RcInv, RcSound, RcShape
<1>2. CASE CreateRow(m)
  <2>1. RcShape(Added(rc, m.top, 1))
    BY <1>1, AddedShape
  <2> QED
    BY <1>2, <2>1, HandledSound DEF CreateRow
<1>3. CASE BulkCreateRows(m)
  <2>1. RcShape(Added(rc, m.top, RcBulk))
    BY <1>1, AddedShape, RcAssumption
  <2> QED
    BY <1>3, <2>1, HandledSound DEF BulkCreateRows
<1>4. CASE DeleteRows(m)
  <2>1. PICK i \in DOMAIN m.ids :
          Handled(m, [rc EXCEPT !.rows = Without(@, {m.ids[i]})], RemoveAt(m.ids, i),
                  m.failed \/ \A r \in rc.rows : r.id # m.ids[i])
    BY <1>4 DEF DeleteRows
  <2>2. IsFiniteSet(Without(rc.rows, {m.ids[i]}))
    BY <1>1, RowsStayFinite
  <2>3. RcShape([rc EXCEPT !.rows = Without(rc.rows, {m.ids[i]})])
    BY <1>1, <2>2, ChangedRows
  <2> QED
    BY <2>1, <2>3, HandledSound
<1>5. CASE ReorderHandled(m)
  <2>1. Handled(m, [rc EXCEPT !.rows = Reordered(rc.rows, m.ids)], <<>>, FALSE)
    BY <1>5 DEF ReorderHandled
  <2>2. IsFiniteSet(Reordered(rc.rows, m.ids))
    BY <1>1, RowsStayFinite
  <2>3. RcShape([rc EXCEPT !.rows = Reordered(rc.rows, m.ids)])
    BY <1>1, <2>2, ChangedRows
  <2> QED
    BY <2>1, <2>3, HandledSound
<1>6. CASE ReadTop(m)
  <2> DEFINE new == [m EXCEPT !.top = MaxSeq(rc.rows)]
             t == [rc EXCEPT !.net = (@ \ {m}) \cup {new}]
  <2>1. rc' = t
    BY <1>6 DEF ReadTop
  <2> HIDE DEF new
  <2>2. t \in [rows : {rc.rows}, made : {rc.made}, pages : {rc.pages}, fetch : {rc.fetch},
               net : {(rc.net \ {m}) \cup {new}}, sent : {rc.sent}, gone : {rc.gone}, torn : {rc.torn},
               ops : {rc.ops}]
    BY <1>1 DEF RcShape
  <2> HIDE DEF t
  <2>3. RcShape(t) /\ t.net # {}
    BY <1>1, <2>2 DEF RcShape
  <2>4. RcSound(t)
    BY <2>3, BusyIsSound
  <2> QED
    BY <2>1, <2>4 DEF RcInv
<1>7. QED
  BY <1>2, <1>3, <1>4, <1>5, <1>6


LEMMA AnswerSound ==
    ASSUME RcInv, NEW m \in rc.net, RowsAnswered(m)
    PROVE  RcInv'
<1> DEFINE got == [rc EXCEPT !.net = @ \ {m}]
<1>1. RcShape(rc)
  BY DEF RcInv, RcSound
<1>2. RcShape(got)
  <2>1. got \in [rows : {rc.rows}, made : {rc.made}, pages : {rc.pages}, fetch : {rc.fetch},
                 net : {rc.net \ {m}}, sent : {rc.sent}, gone : {rc.gone}, torn : {rc.torn}, ops : {rc.ops}]
    BY <1>1 DEF RcShape
  <2> HIDE DEF got
  <2> QED
    BY <1>1, <2>1 DEF RcShape
<1>3. \/ rc' = Torn(got) \/ rc' = RowsInvalidated(got) \/ rc' = RowRemoved(got, m.row)
  BY DEF RowsAnswered, RowsCreated
<1> HIDE DEF got
<1>4. RcSound(Torn(got)) /\ RcSound(RowsInvalidated(got))
  BY <1>2, TornIsSound, InvalidatedIsSound
<1>5. RcSound(RowRemoved(got, m.row))
  <2> DEFINE s == Torn(got)
  <2>1. PICK pages, gone : RowRemoved(got, m.row) = [s EXCEPT !.pages = pages, !.gone = gone]
    BY DEF RowRemoved
  <2>2. RcShape(s) /\ s.torn = TRUE /\ s.fetch.whole = FALSE
    BY <1>2, TornIsSound DEF Torn, RcShape
  <2> HIDE DEF s
  <2> DEFINE t == [s EXCEPT !.pages = pages, !.gone = gone]
  <2>3. t \in [rows : {s.rows}, made : {s.made}, pages : {pages}, fetch : {s.fetch},
               net : {s.net}, sent : {s.sent}, gone : {gone}, torn : {s.torn}, ops : {s.ops}]
    BY <2>2 DEF RcShape
  <2> HIDE DEF t
  <2>4. RcShape(t) /\ t.torn = TRUE /\ t.fetch.whole = FALSE
    BY <2>2, <2>3 DEF RcShape
  <2>5. RcSound(t)
    BY <2>4 DEF RcSound
  <2> QED
    BY <2>1, <2>5 DEF t
<1>6. QED
  BY <1>3, <1>4, <1>5 DEF RcInv

LEMMA FetchingSound == RcInv /\ Fetching => RcInv'
<1> SUFFICES ASSUME RcInv, Fetching PROVE RcInv'
  OBVIOUS
<1>1. RcShape(rc) /\ RcSound(rc) /\ IsFiniteSet(rc.rows)
  BY DEF RcInv, RcSound, RcShape
<1>2. CASE FetchNextPage
  <2> DEFINE new == [want |-> 1, old |-> rc.pages, got |-> <<>>, whole |-> FALSE]
             torn == rc.torn \/ Loading
             t == [rc EXCEPT !.ops = @ - 1, !.torn = torn, !.fetch = new]
  <2>1. rc' = t
    BY <1>2 DEF FetchNextPage
  <2>2. torn \in BOOLEAN
    BY <1>1 DEF RcShape, Loading
  <2> HIDE DEF new, torn
  <2>3. t \in [rows : {rc.rows}, made : {rc.made}, pages : {rc.pages}, fetch : {new},
               net : {rc.net}, sent : {rc.sent}, gone : {rc.gone}, torn : {torn}, ops : {rc.ops - 1}]
    BY <1>1 DEF RcShape
  <2> HIDE DEF t
  <2>4. RcShape(t)
    <3>1. new \in [want : {new.want}, old : {new.old}, got : {new.got}, whole : {new.whole}] /\ new.whole \in BOOLEAN
      BY DEF new
    <3> QED
      BY <1>1, <2>2, <2>3, <3>1 DEF RcShape
  <2>5. t.fetch # NoFetch
    BY <2>3 DEF new, NoFetch
  <2>6. t.net = {} /\ ~t.torn => FirstPages(t.rows, rc.pages)
    BY <1>1, <2>3 DEF RcSound, torn, Loading
  <2>7. RcSound(t)
    BY <2>3, <2>4, <2>5, <2>6, NoPages DEF RcSound, new
  <2> QED
    BY <2>1, <2>7 DEF RcInv
<1>3. CASE QueryPage
  <2> DEFINE f == rc.fetch
             so == f.old \o f.got
             n == IF so = <<>> THEN 1 ELSE Last(so).page + 1
  <2>1. PICK page \in Queried(rc.rows, n) : rc' = [rc EXCEPT !.fetch.got = Append(@, page)]
    BY <1>3 DEF QueryPage
  <2> DEFINE got == Append(f.got, page)
             new == [f EXCEPT !.got = got]
             t == [rc EXCEPT !.fetch = new]
  <2>2. rc' = t
    <3> HIDE DEF n
    <3> QED
      BY <1>1, <2>1 DEF RcShape
  <2>3. rc.net = {} /\ (f.whole \/ ~rc.torn) =>
           FirstPages(rc.rows, f.old) /\ PagesFrom(rc.rows, got, Len(f.old)) /\ got # <<>>
    <3> SUFFICES ASSUME rc.net = {}, f.whole \/ ~rc.torn
                 PROVE  FirstPages(rc.rows, f.old) /\ PagesFrom(rc.rows, got, Len(f.old)) /\ got # <<>>
      OBVIOUS
    <3>1. FirstPages(rc.rows, f.old) /\ PagesFrom(rc.rows, f.got, Len(f.old))
      BY <1>1, <1>3 DEF RcSound, QueryPage, Loading
    <3> HIDE DEF f
    <3>2. PagesFrom(rc.rows, Append(f.got, page), Len(f.old)) /\ Append(f.got, page) # <<>>
      BY <1>1, <3>1, NextPage
    <3> QED
      BY <3>1, <3>2
  <2> HIDE DEF so, n, got
  <2>4. new \in [want : {f.want}, old : {f.old}, got : {got}, whole : {f.whole}]
    BY <1>1 DEF RcShape
  <2> HIDE DEF new
  <2>5. t \in [rows : {rc.rows}, made : {rc.made}, pages : {rc.pages}, fetch : {new},
               net : {rc.net}, sent : {rc.sent}, gone : {rc.gone}, torn : {rc.torn}, ops : {rc.ops}]
    BY <1>1 DEF RcShape
  <2> HIDE DEF t
  <2>6. RcShape(t)
    BY <1>1, <2>4, <2>5 DEF RcShape
  <2>7. /\ rc.net = {} /\ (f.whole \/ ~rc.torn) => new # NoFetch
        /\ t.fetch = new /\ t.rows = rc.rows /\ t.net = rc.net /\ t.torn = rc.torn
        /\ new.old = f.old /\ new.got = got /\ new.whole = f.whole
    BY <2>3, <2>4, <2>5 DEF NoFetch
  <2>8. RcSound(t)
    <3>1. rc.net = {} /\ new = NoFetch => rc.torn
      BY <2>7
    <3> HIDE DEF f
    <3> QED
      BY <2>3, <2>6, <2>7, <3>1 DEF RcSound
  <2> QED
    BY <2>2, <2>8 DEF RcInv
<1>4. CASE PagesArrive
  <2> DEFINE pages == rc.fetch.old \o rc.fetch.got
             torn == rc.torn /\ ~rc.fetch.whole
             t == [rc EXCEPT !.pages = pages, !.fetch = NoFetch, !.torn = torn]
  <2>1. rc' = t
    BY <1>4 DEF PagesArrive
  <2>2. torn \in BOOLEAN
    BY <1>1 DEF RcShape
  <2>3. rc.net = {} /\ ~torn => pages # <<>> /\ FirstPages(rc.rows, pages)
    <3> SUFFICES ASSUME rc.net = {}, ~torn PROVE pages # <<>> /\ FirstPages(rc.rows, pages)
      OBVIOUS
    <3>1. FirstPages(rc.rows, rc.fetch.old) /\ PagesFrom(rc.rows, rc.fetch.got, Len(rc.fetch.old))
      BY <1>1, <1>4 DEF RcSound, PagesArrive, Loading
    <3>2. FirstPages(rc.rows, pages) /\ Len(pages) = Len(rc.fetch.old) + Len(rc.fetch.got)
          /\ Len(rc.fetch.old) \in Nat /\ Len(rc.fetch.got) \in Nat
      BY <3>1, MorePages
    <3>3. rc.fetch.got # <<>> /\ rc.fetch.got \in Seq(Range(rc.fetch.got))
      BY <1>4, <3>1 DEF PagesArrive, Complete, PagesFrom, IsList
    <3>4. Len(rc.fetch.got) # 0
      BY <3>3, EmptySeq
    <3> HIDE DEF pages
    <3>5. Len(pages) # 0
      <4> DEFINE a == Len(rc.fetch.old)
                 b == Len(rc.fetch.got)
                 c == Len(pages)
      <4>1. a \in Nat /\ b \in Nat /\ b # 0 /\ c = a + b
        BY <3>2, <3>4
      <4> HIDE DEF a, b, c
      <4>2. c # 0
        BY <4>1
      <4> QED
        BY <4>2 DEF c
    <3>6. Len(<<>>) = 0
      OBVIOUS
    <3> QED
      BY <3>2, <3>5, <3>6
  <2> HIDE DEF pages, torn
  <2>4. t \in [rows : {rc.rows}, made : {rc.made}, pages : {pages}, fetch : {NoFetch},
               net : {rc.net}, sent : {rc.sent}, gone : {rc.gone}, torn : {torn}, ops : {rc.ops}]
    BY <1>1 DEF RcShape
  <2> HIDE DEF t
  <2>5. RcShape(t)
    <3> DEFINE new == NoFetch
    <3>1. new \in [want : {new.want}, old : {new.old}, got : {new.got}, whole : {new.whole}] /\ new.whole \in BOOLEAN
      BY DEF NoFetch
    <3> HIDE DEF new
    <3>2. t.fetch = new /\ t.torn = torn /\ t.rows = rc.rows
          /\ t \in [rows : {t.rows}, made : {t.made}, pages : {t.pages}, fetch : {t.fetch},
                    net : {t.net}, sent : {t.sent}, gone : {t.gone}, torn : {t.torn}, ops : {t.ops}]
      BY <2>4 DEF new
    <3> QED
      BY <1>1, <2>2, <3>1, <3>2 DEF RcShape
  <2>6. RcSound(t)
    BY <2>3, <2>4, <2>5 DEF RcSound
  <2> QED
    BY <2>1, <2>6 DEF RcInv
<1>5. CASE RefetchRows
  <2> DEFINE s == RowsInvalidated(rc)
             t == [s EXCEPT !.ops = @ - 1]
  <2>1. rc' = t
    BY <1>5 DEF RefetchRows
  <2>2. RcShape(s) /\ RcSound(s)
    BY <1>1, InvalidatedIsSound
  <2> HIDE DEF s
  <2>3. t \in [rows : {s.rows}, made : {s.made}, pages : {s.pages}, fetch : {s.fetch},
               net : {s.net}, sent : {s.sent}, gone : {s.gone}, torn : {s.torn}, ops : {s.ops - 1}]
    BY <2>2 DEF RcShape
  <2> HIDE DEF t
  <2>4. RcShape(t)
    BY <2>2, <2>3 DEF RcShape
  <2>5. RcSound(t)
    BY <2>2, <2>3, <2>4 DEF RcSound
  <2> QED
    BY <2>1, <2>5 DEF RcInv
<1>6. QED
  BY <1>2, <1>3, <1>4, <1>5 DEF Fetching

LEMMA RcNextInv == RcInv /\ [RcNext]_rc => RcInv'
<1> SUFFICES ASSUME RcInv, [RcNext]_rc PROVE RcInv'
  OBVIOUS
<1>1. CASE RowUser
  BY <1>1, RowUserSound
<1>2. CASE Fetching
  BY <1>2, FetchingSound
<1>3. CASE \E m \in rc.net : RowRequest(m)
  <2>1. PICK m \in rc.net : RowRequest(m)
    BY <1>3
  <2>2. CASE RowsAnswered(m)
    BY <2>2, AnswerSound
  <2>3. CASE ReadTop(m) \/ CreateRow(m) \/ BulkCreateRows(m) \/ DeleteRows(m) \/ ReorderHandled(m)
    BY <2>3, RequestSound
  <2> QED
    BY <2>1, <2>2, <2>3 DEF RowRequest
<1>4. CASE UNCHANGED rc
  BY <1>4 DEF RcInv
<1>5. QED
  BY <1>1, <1>2, <1>3, <1>4 DEF RcNext

LEMMA RcInvSuffices == RcInv => QuietTableIsComplete
<1> SUFFICES ASSUME RcInv, rc.net = {}, ~Loading, ~rc.torn, ~HasNext(rc.pages)
             PROVE  /\ Len(LoadedRows) = Cardinality(rc.rows)
                    /\ \A i \in DOMAIN LoadedRows : \E r \in AtPlace(rc.rows, i) : r.id = LoadedRows[i]
  BY DEF QuietTableIsComplete
<1>1. IsFiniteSet(rc.rows) /\ rc.pages # <<>> /\ FirstPages(rc.rows, rc.pages)
  BY DEF RcInv, RcSound, RcShape, Loading
<1>2. QED
  BY <1>1, AllLoaded DEF LoadedRows

(* With no request under way, what a table keeps and what it fetches are    *)
(* pages of the rows there are, whatever requests came before (rowsQ,      *)
(* invalidate).                                                            *)
THEOREM RowsInvariant == RcSpec => []RcInv
<1>1. QED
  BY RcInitInv, RcNextInv, PTL DEF RcSpec


-----------------------------------------------------------------------------
(* Dates: the timeline, the calendar and the date picker.                  *)


DvData == [Range(DvRows) -> [Range(DvFields) -> DvValues \cup {Null}]]
DvSpans == [start : Int, end : Int, allDay : BOOLEAN, hasEnd : BOOLEAN]
DvDrags == [row : Range(DvRows), mode : {"move", "start", "end"}, span : DvSpans, delta : Int]
DvDrafts == [start : DvDates, end : {Null}]
DvPickers == [row : Range(DvRows), start : DvDates \cup {Null}, end : DvDates \cup {Null},
              withTime : BOOLEAN, withEnd : BOOLEAN]
DvStates == [mode : {"gantt", "calendar", "table"}, pages : Int, before : Nat, after : Nat,
             edit : Range(DvRows) \cup {NoRow}, drag : DvDrags \cup {Closed}, anchor : Int,
             dragId : Range(DvRows) \cup {NoRow}, draft : DvDrafts \cup {Null},
             cell : DvPickers \cup {Closed}, rows : SUBSET Range(DvRows), data : DvData,
             picked : Range(DvFields) \cup {NoField}, period : DOMAIN DvPeriods,
             cal : {"day", "4days", "week", "month", "year"}, ops : Int]

Proper(v) == InOrder(v) /\ Alike(v)

PickerSound(c) ==
    c \in DvPickers /\ (c.end # Null => c.withEnd /\ DayOf(c.start) <= c.end.day)

(* What is in a cell is in order, and so is the bar that is dragged and    *)
(* the range that is picked.                                               *)
DvSound(s) ==
    /\ s \in DvStates
    /\ \A r \in Range(DvRows), f \in Range(DvFields) : Proper(s.data[r][f])
    /\ s.drag # Closed => s.drag.span.start <= s.drag.span.end
    /\ s.cell # Closed => PickerSound(s.cell)
DvInv == DvSound(dv)

LEMMA LeastOfTwo ==
    ASSUME NEW a \in Int, NEW b \in Int
    PROVE  Least({a, b}) = IF a < b THEN a ELSE b
<1> DEFINE m == IF a < b THEN a ELSE b
<1>1. m \in {a, b} /\ \A y \in {a, b} : m <= y
  OBVIOUS
<1>2. \A x \in {a, b} : (\A y \in {a, b} : x <= y) => x = m
  OBVIOUS
<1> HIDE DEF m
<1>3. Least({a, b}) = m
  BY <1>1, <1>2 DEF Least
<1>4. QED
  BY <1>3 DEF m

(* The later of two instants is their greatest.                            *)
LEMMA GreatestOfTwo ==
    ASSUME NEW a \in Int, NEW b \in Int
    PROVE  Greatest({a, b}) = IF a < b THEN b ELSE a
<1> DEFINE m == IF a < b THEN b ELSE a
<1>1. m \in {a, b} /\ \A y \in {a, b} : y <= m
  OBVIOUS
<1>2. \A x \in {a, b} : (\A y \in {a, b} : y <= x) => x = m
  OBVIOUS
<1> HIDE DEF m
<1>3. Greatest({a, b}) = m
  BY <1>1, <1>2 DEF Greatest
<1>4. QED
  BY <1>3 DEF m

(* A later step is not on an earlier day.                                  *)
LEMMA DaysInOrder ==
    ASSUME NEW a \in Int, NEW b \in Int, a <= b
    PROVE  /\ Timed(a) \in DvDates /\ Dated(a) \in DvDates
           /\ Timed(a).day <= Timed(b).day /\ Dated(a).day <= Dated(b).day
           /\ Timed(a).time # Null /\ Dated(a).time = Null
<1>1. DvDay \in Nat /\ DvDay > 0
  BY DvAssumption
<1>2. a \div DvDay \in Int /\ b \div DvDay \in Int /\ a % DvDay \in Int
  BY <1>1
<1>3. a \div DvDay <= b \div DvDay
  BY <1>1, SMT
<1>4. QED
  BY <1>2, <1>3, DvAssumption DEF Timed, Dated, DvDates

(* A date names an instant: the start of its day, when it has no time.     *)
LEMMA StepOfDate ==
    ASSUME NEW d \in DvDates
    PROVE  Step(d) \in Int /\ (d.time = Null => StartOfDay(Step(d)) = Step(d) /\ Step(d) = d.day * DvDay)
<1>1. DvDay \in Nat /\ DvDay > 0
  BY DvAssumption
<1>2. d.day \in Int /\ (d.time # Null => d.time \in Int)
  BY DEF DvDates
<1>3. d.day * DvDay \in Int /\ ((d.day * DvDay) \div DvDay) * DvDay = d.day * DvDay
  BY <1>1, <1>2, SMT
<1>4. QED
  BY <1>2, <1>3 DEF Step, StartOfDay

(* A day, and an end on another or the same; whole days begin and end as   *)
(* days do.                                                                *)
LEMMA SpanInOrder ==
    ASSUME NEW v \in DvValues \cup {Null}
    PROVE  /\ Span(v) \in DvSpans /\ (v # Null => Span(v).start <= Span(v).end)
           /\ v # Null /\ Proper(v) /\ Span(v).allDay
              => StartOfDay(Span(v).start) = Span(v).start /\ StartOfDay(Span(v).end) = Span(v).end
           /\ v # Null /\ ~Span(v).hasEnd => Span(v).end = Span(v).start
<1>1. CASE v = Null
  BY <1>1 DEF Span, NoSpan, DvSpans
<1>2. CASE v # Null
  <2> DEFINE s == Step(v.start)
             e == Step(v.end)
             g == IF v.end = Null THEN s ELSE Greatest({s, e})
  <2>1. v.start \in DvDates /\ (v.end # Null => v.end \in DvDates)
    BY <1>2 DEF DvValues
  <2>2. /\ s \in Int /\ (v.start.time = Null => StartOfDay(s) = s)
        /\ v.end # Null => e \in Int /\ (v.end.time = Null => StartOfDay(e) = e)
    BY <2>1, StepOfDate
  <2>3. Span(v) = [start |-> s, end |-> g, allDay |-> v.start.time = Null, hasEnd |-> v.end # Null]
    BY <1>2 DEF Span
  <2> HIDE DEF s, e
  <2>4. g \in Int /\ s <= g /\ (g = s \/ (v.end # Null /\ g = e))
    BY <2>2, GreatestOfTwo
  <2> HIDE DEF g
  <2>5. Proper(v) /\ v.start.time = Null => StartOfDay(s) = s /\ StartOfDay(g) = g
    BY <1>2, <2>2, <2>4 DEF Proper, Alike
  <2> DEFINE w == v.start.time = Null
             h == v.end # Null
  <2>6. Span(v).start = s /\ Span(v).end = g /\ (Span(v).allDay <=> w)
    <3>1. Span(v) = [start |-> s, end |-> g, allDay |-> w, hasEnd |-> h]
      BY <2>3
    <3>2. w \in BOOLEAN
      OBVIOUS
    <3> HIDE DEF w, h
    <3>3. Span(v).allDay = w
      BY <3>1
    <3>4. QED
      BY <3>1, <3>2, <3>3
  <2>7. Span(v) \in DvSpans
    BY <2>2, <2>3, <2>4 DEF DvSpans
  <2>8. ~Span(v).hasEnd => g = s
    <3>1. ~h => g = s
      BY DEF g
    <3>2. Span(v) = [start |-> s, end |-> g, allDay |-> w, hasEnd |-> h]
      BY <2>3
    <3> HIDE DEF w, h
    <3>3. Span(v).hasEnd = h
      BY <3>2
    <3>4. QED
      BY <3>1, <3>3
  <2>9. QED
    BY <1>2, <2>4, <2>5, <2>6, <2>7, <2>8
<1>3. QED
  BY <1>1, <1>2

(* The axis is a column.                                                   *)
LEMMA AxisIsColumn == Axis \in Range(DvFields)
<1>1. DvFields \in Seq(Range(DvFields)) /\ DvFields # <<>>
  BY DvAssumption
<1>2. 1 \in 1..Len(DvFields) /\ DOMAIN DvFields = 1..Len(DvFields)
  BY <1>1, EmptySeq, LenProperties
<1>3. DvFields[1] \in Range(DvFields)
  BY <1>2 DEF Range
<1>4. QED
  BY <1>3 DEF Axis


(* A bar is dragged by whole units.                                        *)
LEMMA SnapType == Snap \in Int
BY DvAssumption DEF Snap

(* Counting an operation and writing a value in order keep the invariant.  *)
LEMMA ActionIsCounted ==
    \A s : DvSound(s) => DvSound([s EXCEPT !.ops = @ - 1])
<1> SUFFICES ASSUME NEW s, DvSound(s) PROVE DvSound([s EXCEPT !.ops = @ - 1])
  OBVIOUS
<1> DEFINE t == [s EXCEPT !.ops = @ - 1]
<1>1. s \in DvStates /\ s.ops - 1 \in Int
  BY DEF DvSound, DvStates
<1>2. t \in DvStates
  BY <1>1 DEF DvStates
<1>3. t.data = s.data /\ t.drag = s.drag /\ t.cell = s.cell
  BY <1>1 DEF DvStates
<1> HIDE DEF t
<1>4. DvSound(t)
  BY <1>2, <1>3 DEF DvSound
<1>5. QED
  BY <1>4 DEF t

(* Writing a range that is in order into a cell keeps what is held sound.  *)
LEMMA WrittenSound ==
    \A s, r, f, v : /\ DvSound(s) /\ r \in Range(DvRows) /\ f \in Range(DvFields)
                    /\ v \in DvValues \cup {Null} /\ Proper(v)
                    => DvSound([s EXCEPT !.data[r][f] = v])
<1> SUFFICES ASSUME NEW s, NEW r \in Range(DvRows), NEW f \in Range(DvFields), DvSound(s),
                    NEW v \in DvValues \cup {Null}, Proper(v)
             PROVE  DvSound([s EXCEPT !.data[r][f] = v])
  OBVIOUS
<1> DEFINE d == [s.data EXCEPT ![r][f] = v]
           t == [s EXCEPT !.data = d]
<1>1. s \in DvStates /\ s.data \in DvData
  BY DEF DvSound, DvStates
<1>2. d \in DvData
  BY <1>1 DEF DvData
<1>3. \A a \in Range(DvRows), b \in Range(DvFields) : d[a][b] = IF a = r /\ b = f THEN v ELSE s.data[a][b]
  BY <1>1 DEF DvData
<1>4. [s EXCEPT !.data[r][f] = v] = t
  OBVIOUS
<1> HIDE DEF d
<1>5. t \in DvStates
  BY <1>1, <1>2 DEF DvStates
<1>6. t.data = d /\ t.drag = s.drag /\ t.cell = s.cell
  BY <1>1 DEF DvStates
<1> HIDE DEF t
<1>7. \A a \in Range(DvRows), b \in Range(DvFields) : Proper(t.data[a][b])
  BY <1>3, <1>6 DEF DvSound
<1>8. DvSound(t)
  BY <1>5, <1>6, <1>7 DEF DvSound
<1>9. QED
  BY <1>4, <1>8

(* So does an action that saves nothing,                                   *)
LEMMA ActsSound == \A n : DvSound(n) /\ dv' = [n EXCEPT !.ops = @ - 1] => DvInv'
BY ActionIsCounted DEF DvInv

(* and one that saves a cell.                                              *)
LEMMA SavesSound ==
    \A n, r, v : /\ DvSound(n) /\ r \in Range(DvRows)
                 /\ v \in DvValues \cup {Null} /\ Proper(v)
                 /\ dv' = [[n EXCEPT !.data[r][Axis] = v] EXCEPT !.ops = @ - 1]
                 => DvInv'
<1> SUFFICES ASSUME NEW n, NEW r, NEW v, DvSound(n), r \in Range(DvRows),
                    v \in DvValues \cup {Null}, Proper(v),
                    dv' = [[n EXCEPT !.data[r][Axis] = v] EXCEPT !.ops = @ - 1]
             PROVE  DvInv'
  OBVIOUS
<1>1. DvSound([n EXCEPT !.data[r][Axis] = v])
  BY WrittenSound, AxisIsColumn
<1>2. QED
  BY <1>1, ActsSound

(* What is not in a cell, dragged or picked does not matter.               *)
LEMMA SameContents ==
    \A s, t : /\ DvSound(s) /\ t \in DvStates /\ t.data = s.data
              /\ t.drag \in {s.drag, Closed} /\ t.cell \in {s.cell, Closed}
              => DvSound(t)
BY DEF DvSound

(* Where the rows and what their cells hold come from.                     *)
LEMMA CellsHold ==
    ASSUME DvInv, NEW r \in Range(DvRows)
    PROVE  /\ dv.data[r][Axis] \in DvValues \cup {Null} /\ Proper(dv.data[r][Axis])
           /\ SpanOf(r) \in DvSpans
           /\ HasSpan(r) \/ SpanOf(r).hasEnd \/ SpanOf(r).allDay =>
                dv.data[r][Axis] # Null /\ SpanOf(r).start <= SpanOf(r).end
           /\ SpanOf(r).allDay =>
                StartOfDay(SpanOf(r).start) = SpanOf(r).start /\ StartOfDay(SpanOf(r).end) = SpanOf(r).end
           /\ HasSpan(r) /\ ~SpanOf(r).hasEnd => SpanOf(r).end = SpanOf(r).start
<1>1. dv.data \in DvData
  BY DEF DvInv, DvSound, DvStates
<1>2. dv.data[r][Axis] \in DvValues \cup {Null} /\ Proper(dv.data[r][Axis])
  BY <1>1, AxisIsColumn DEF DvData, DvInv, DvSound
<1>3. SpanOf(r) \in DvSpans
  BY <1>2, SpanInOrder DEF SpanOf
<1>4. HasSpan(r) \/ SpanOf(r).hasEnd \/ SpanOf(r).allDay => dv.data[r][Axis] # Null
  BY DEF HasSpan, SpanOf, Span, NoSpan
<1>5. QED
  BY <1>2, <1>3, <1>4, SpanInOrder DEF SpanOf

(* Scrolling, paging and the controls of a view.                           *)
LEMMA ControlsSound ==
    /\ DvInv /\ (Extend \/ LoadMoreBars \/ Controls) => DvInv'
    /\ DvInv /\ (Header \/ YearGrid) => DvInv'
<1> SUFFICES ASSUME DvInv
             PROVE  /\ Extend \/ LoadMoreBars \/ Controls => DvInv'
                    /\ Header \/ YearGrid => DvInv'
  OBVIOUS
<1>1. DvSound(dv) /\ dv \in DvStates
  BY DEF DvInv, DvSound
<1>2. /\ DvSound([dv EXCEPT !.before = @ + 1]) /\ DvSound([dv EXCEPT !.after = @ + 1])
      /\ DvSound([dv EXCEPT !.pages = @ + 1])
  <2>1. \A t \in {[dv EXCEPT !.before = @ + 1], [dv EXCEPT !.after = @ + 1], [dv EXCEPT !.pages = @ + 1]} :
           t \in DvStates /\ t.data = dv.data /\ t.drag = dv.drag /\ t.cell = dv.cell
    BY <1>1 DEF DvStates
  <2>2. QED
    BY <1>1, <2>1, SameContents
<1>3. ASSUME NEW p \in DOMAIN DvPeriods PROVE DvSound([dv EXCEPT !.period = p])
  <2> DEFINE t == [dv EXCEPT !.period = p]
  <2>1. t \in DvStates /\ t.data = dv.data /\ t.drag = dv.drag /\ t.cell = dv.cell
    BY <1>1 DEF DvStates
  <2> HIDE DEF t
  <2>2. DvSound(t)
    BY <1>1, <2>1, SameContents
  <2>3. QED
    BY <2>2 DEF t
<1>4. ASSUME NEW f \in Range(DvFields) PROVE DvSound([dv EXCEPT !.picked = f])
  <2> DEFINE t == [dv EXCEPT !.picked = f]
  <2>1. t \in DvStates /\ t.data = dv.data /\ t.drag = dv.drag /\ t.cell = dv.cell
    BY <1>1 DEF DvStates
  <2> HIDE DEF t
  <2>2. DvSound(t)
    BY <1>1, <2>1, SameContents
  <2>3. QED
    BY <2>2 DEF t
<1>5. Extend \/ LoadMoreBars \/ Controls => DvInv'
  BY <1>2, <1>3, <1>4, ActsSound DEF Extend, LoadMoreBars, Controls, Acts
<1>6. ASSUME NEW a \in Int, NEW c \in {"day", "4days", "week", "month", "year"}
      PROVE  /\ DvSound([dv EXCEPT !.anchor = a]) /\ DvSound([dv EXCEPT !.cal = c])
             /\ DvSound([dv EXCEPT !.anchor = a, !.cal = c])
  <2>1. \A s, y : LET t == [s EXCEPT !.anchor = y]
                  IN s \in DvStates /\ y \in Int =>
                       t \in DvStates /\ t.data = s.data /\ t.drag = s.drag /\ t.cell = s.cell
    BY DEF DvStates
  <2>2. \A s, y : LET t == [s EXCEPT !.cal = y]
                  IN s \in DvStates /\ y \in {"day", "4days", "week", "month", "year"} =>
                       t \in DvStates /\ t.data = s.data /\ t.drag = s.drag /\ t.cell = s.cell
    BY DEF DvStates
  <2>3. DvSound([dv EXCEPT !.anchor = a]) /\ DvSound([dv EXCEPT !.cal = c])
    BY <1>1, <2>1, <2>2, SameContents
  <2>4. DvSound([[dv EXCEPT !.anchor = a] EXCEPT !.cal = c])
    <3> DEFINE s == [dv EXCEPT !.anchor = a]
               t == [s EXCEPT !.cal = c]
    <3>1. s \in DvStates /\ DvSound(s)
      BY <1>1, <2>1, <2>3
    <3> HIDE DEF s
    <3>2. t \in DvStates /\ t.data = s.data /\ t.drag = s.drag /\ t.cell = s.cell
      BY <2>2, <3>1
    <3> HIDE DEF t
    <3>3. DvSound(t)
      BY <3>1, <3>2, SameContents
    <3>4. QED
      BY <3>3 DEF s, t
  <2>5. QED
    BY <2>3, <2>4
<1>7. DvNow \div DvDay \in Int /\ DvDays \subseteq Int
  <2>1. DvNow \in Int /\ DvDay \in Nat /\ DvDay > 0 /\ DvDays \subseteq Int
    BY DvAssumption
  <2>2. QED
    BY <2>1
<1>8. StepCalendar => DvInv'
  <2>1. DvMonth \in Int /\ DvMonth > 0 /\ DvYear \in Int /\ DvWeek \in Int /\ dv.anchor \in Int
    <3>1. {DvMonth, DvYear, DvWeek} \subseteq Nat \ {0}
      BY DvAssumption
    <3>2. dv.anchor \in Int
      BY <1>1 DEF DvStates
    <3> QED
      BY <3>1, <3>2
  <2>2. DvYear * DvMonth \in Int /\ FirstOfMonth(dv.anchor) \in Int
    BY <2>1 DEF FirstOfMonth
  <2>3. ASSUME NEW dir \in {1, -1}
        PROVE  /\ FirstOfMonth(dv.anchor) + dir * DvYear * DvMonth \in Int
               /\ FirstOfMonth(dv.anchor) + dir * DvMonth \in Int
               /\ dv.anchor + dir * DvWeek \in Int /\ dv.anchor + dir * 4 \in Int /\ dv.anchor + dir \in Int
    <3>1. CASE dir = 1
      BY <2>1, <2>2, <3>1
    <3>2. CASE dir = -1
      BY <2>1, <2>2, <3>2
    <3>3. QED
      BY <3>1, <3>2
  <2>4. dv.cal \in {"day", "4days", "week", "month", "year"}
    BY <1>1 DEF DvStates
  <2>5. QED
    <3> SUFFICES ASSUME NEW dir \in {1, -1},
                        Acts([dv EXCEPT !.anchor =
                            CASE dv.cal = "year" -> FirstOfMonth(@) + dir * DvYear * DvMonth
                              [] dv.cal = "month" -> FirstOfMonth(@) + dir * DvMonth
                              [] dv.cal = "week" -> @ + dir * DvWeek
                              [] dv.cal = "4days" -> @ + dir * 4
                              [] dv.cal = "day" -> @ + dir])
                 PROVE  DvInv'
      BY DEF StepCalendar
    <3> DEFINE a == CASE dv.cal = "year" -> FirstOfMonth(dv.anchor) + dir * DvYear * DvMonth
                      [] dv.cal = "month" -> FirstOfMonth(dv.anchor) + dir * DvMonth
                      [] dv.cal = "week" -> dv.anchor + dir * DvWeek
                      [] dv.cal = "4days" -> dv.anchor + dir * 4
                      [] dv.cal = "day" -> dv.anchor + dir
    <3>1. a \in Int
      BY <2>3, <2>4
    <3>2. Acts([dv EXCEPT !.anchor = a])
      OBVIOUS
    <3> HIDE DEF a
    <3>3. QED
      BY <1>6, <3>1, <3>2, ActsSound DEF Acts
<1>9. Header \/ YearGrid => DvInv'
  BY <1>4, <1>6, <1>7, <1>8, ActsSound DEF Header, YearGrid, Acts
<1>10. QED
  BY <1>5, <1>9

(* Adding a bar, and pressing and dragging one.                            *)
LEMMA AddBarSound == DvInv /\ AddBar => DvInv'
<1> SUFFICES ASSUME DvInv, AddBar PROVE DvInv'
  OBVIOUS
<1> DEFINE n == Cardinality(dv.rows) \div DvLimit
           t == [dv EXCEPT !.rows = @ \cup {DvNew}, !.edit = DvNew, !.pages = n]
<1>1. DvSound(dv) /\ dv \in DvStates
  BY DEF DvInv, DvSound
<1>2. DvRows \in Seq(Range(DvRows)) /\ DvNew \in Range(DvRows) /\ DvLimit \in Nat /\ DvLimit > 0
  BY DvAssumption
<1>3. n \in Int
  <2>1. IsFiniteSet(Range(DvRows))
    BY <1>2, RangeIsFinite
  <2>2. IsFiniteSet(dv.rows)
    BY <1>1, <2>1, FS_Subset DEF DvStates
  <2>3. Cardinality(dv.rows) \in Nat
    BY <2>2, FS_CardinalityType
  <2>4. QED
    BY <1>2, <2>3
<1>4. dv' = [t EXCEPT !.ops = @ - 1]
  BY DEF AddBar, Acts
<1> HIDE DEF n
<1>5. t \in DvStates /\ t.data = dv.data /\ t.drag = dv.drag /\ t.cell = dv.cell
  BY <1>1, <1>2, <1>3 DEF DvStates
<1> HIDE DEF t
<1>6. QED
  BY <1>1, <1>4, <1>5, SameContents, ActsSound

(* Pressing a bar, or one of its handles.                                  *)
LEMMA PressSound == DvInv /\ BeginDrag => DvInv'
<1> SUFFICES ASSUME DvInv, BeginDrag PROVE DvInv'
  OBVIOUS
<1>1. PICK r \in Bars, mode \in {"move", "start", "end"} :
         dv' = [[dv EXCEPT !.drag = [row |-> r, mode |-> mode, span |-> SpanOf(r), delta |-> 0]]
                  EXCEPT !.ops = @ - 1]
  BY DEF BeginDrag, Acts
<1> DEFINE g == [row |-> r, mode |-> mode, span |-> SpanOf(r), delta |-> 0]
           t == [dv EXCEPT !.drag = g]
<1>2. DvSound(dv) /\ dv \in DvStates
  BY DEF DvInv, DvSound
<1>3. r \in Range(DvRows) /\ HasSpan(r)
  BY <1>2 DEF Bars, DatedRows, DvStates
<1>4. g \in DvDrags /\ g.span.start <= g.span.end
  BY <1>3, CellsHold DEF DvDrags
<1> HIDE DEF g
<1>5. t \in DvStates /\ t.data = dv.data /\ t.drag = g /\ t.cell = dv.cell
  BY <1>2, <1>4 DEF DvStates
<1>6. dv' = [t EXCEPT !.ops = @ - 1]
  BY <1>1 DEF g
<1> HIDE DEF t
<1>7. DvSound(t)
  BY <1>2, <1>4, <1>5 DEF DvSound
<1>8. QED
  BY <1>6, <1>7, ActsSound

(* Dragging it on.                                                         *)
LEMMA DragOnSound == DvInv /\ dv.drag # Closed /\ DragOn => DvInv'
<1> SUFFICES ASSUME DvInv, dv.drag # Closed, DragOn PROVE DvInv'
  OBVIOUS
<1>1. PICK d \in DvMoves : dv' = [[dv EXCEPT !.drag.delta = d] EXCEPT !.ops = @ - 1]
  BY DEF DragOn, Acts
<1> DEFINE g == [dv.drag EXCEPT !.delta = d]
           t == [dv EXCEPT !.drag = g]
<1>2. DvSound(dv) /\ dv \in DvStates /\ dv.drag \in DvDrags /\ d \in Int
  BY DvAssumption DEF DvInv, DvSound, DvStates
<1>3. g \in DvDrags /\ g.span = dv.drag.span
  BY <1>2 DEF DvDrags
<1>4. dv' = [t EXCEPT !.ops = @ - 1]
  BY <1>1
<1> HIDE DEF g
<1>5. t \in DvStates /\ t.data = dv.data /\ t.drag = g /\ t.cell = dv.cell
  BY <1>2, <1>3 DEF DvStates
<1> HIDE DEF t
<1>6. DvSound(t)
  BY <1>2, <1>3, <1>5 DEF DvSound
<1>7. QED
  BY <1>4, <1>6, ActsSound

(* However it is dragged, a bar begins before it ends.                     *)
LEMMA DraggedInOrder ==
    ASSUME NEW mode \in {"move", "start", "end"}, NEW s \in Int, NEW e \in Int, NEW d \in Int, s <= e
    PROVE  LET to == ApplyDrag(mode, s, e, d)
           IN to.start \in Int /\ to.end \in Int /\ to.start <= to.end
<1>1. CASE mode = "move"
  BY <1>1 DEF ApplyDrag
<1>2. CASE mode = "start"
  <2>1. Least({s + d, e}) = IF s + d < e THEN s + d ELSE e
    BY LeastOfTwo
  <2>2. QED
    BY <1>2, <2>1 DEF ApplyDrag
<1>3. CASE mode = "end"
  <2>1. Greatest({e + d, s}) = IF e + d < s THEN s ELSE e + d
    BY GreatestOfTwo
  <2>2. QED
    BY <1>3, <2>1 DEF ApplyDrag
<1>4. QED
  BY <1>1, <1>2, <1>3

(* What is written begins with a day and ends, if it does, with no earlier.*)
LEMMA ValueInOrder ==
    ASSUME NEW a \in DvDates, NEW b \in DvDates \cup {Null},
           b # Null => a.day <= b.day /\ (a.time = Null <=> b.time = Null)
    PROVE  LET v == [start |-> a, end |-> b] IN v \in DvValues \cup {Null} /\ Proper(v)
BY DEF DvValues, InOrder, Alike, Proper

(* What a dropped bar writes: never an end before its start.               *)
LEMMA DroppedInOrder ==
    ASSUME DvInv, dv.drag # Closed
    PROVE  Dropped \in DvValues \cup {Null} /\ Proper(Dropped)
<1> DEFINE g == dv.drag
           d == g.delta * Snap
           to == ApplyDrag(g.mode, g.span.start, g.span.end, d)
           useTime == dv.period = "hour" \/ ~g.span.allDay
           F(t) == IF useTime THEN Timed(t) ELSE Dated(t)
           keepEnd == g.mode = "end" \/ g.span.hasEnd \/ to.end # to.start
           v == [start |-> F(to.start), end |-> IF keepEnd THEN F(to.end) ELSE Null]
<1>1. DvSound(dv) /\ dv \in DvStates /\ g \in DvDrags
  BY DEF DvInv, DvSound, DvStates
<1>2. Dropped = v
  BY DEF Dropped
<1>3. g.mode \in {"move", "start", "end"} /\ g.delta \in Int /\ g.span \in DvSpans
  BY <1>1 DEF DvDrags
<1>4. g.span.start \in Int /\ g.span.end \in Int /\ g.span.start <= g.span.end
  BY <1>1, <1>3 DEF DvSound, DvSpans
<1>5. d \in Int
  BY <1>3, SnapType
<1> HIDE DEF d
<1>6. to.start \in Int /\ to.end \in Int /\ to.start <= to.end
  BY <1>3, <1>4, <1>5, DraggedInOrder
<1> HIDE DEF to
<1>7. F(to.start) \in DvDates /\ F(to.end) \in DvDates /\ F(to.start).day <= F(to.end).day
      /\ (F(to.start).time = Null <=> F(to.end).time = Null)
  BY <1>6, DaysInOrder
<1>8. v \in DvValues \cup {Null} /\ Proper(v)
  BY <1>7, ValueInOrder
<1>9. QED
  BY <1>2, <1>8

(* Dropping the bar writes that.                                           *)
LEMMA DropBarSound == DvInv /\ DropBar => DvInv'
<1> SUFFICES ASSUME DvInv, DropBar PROVE DvInv'
  OBVIOUS
<1> DEFINE g == dv.drag
           up == [dv EXCEPT !.drag = Closed]
           v == Dropped
<1>1. DvSound(dv) /\ dv \in DvStates /\ g \in DvDrags
  BY DEF DvInv, DvSound, DvStates, DropBar
<1>2. up \in DvStates /\ up.data = dv.data /\ up.drag = Closed /\ up.cell = dv.cell
  BY <1>1 DEF DvStates
<1>3. DvSound(up)
  BY <1>1, <1>2, SameContents
<1>4. \/ dv' = [up EXCEPT !.ops = @ - 1]
      \/ dv' = [[up EXCEPT !.data[g.row][Axis] = v] EXCEPT !.ops = @ - 1]
  BY DEF DropBar, Acts, Saves
<1> HIDE DEF up
<1>5. g.row \in Range(DvRows)
  BY <1>1 DEF DvDrags
<1>6. v \in DvValues \cup {Null} /\ Proper(v)
  BY DroppedInOrder DEF DropBar
<1> HIDE DEF v
<1>7. QED
  BY <1>3, <1>4, <1>5, <1>6, ActsSound, SavesSound

(* What drawing over the lane of an unscheduled row writes, in either direction. *)
LEMMA ScheduledInOrder ==
    ASSUME NEW a \in Int, NEW b \in Int
    PROVE  Scheduled(a, b) \in DvValues \cup {Null} /\ Proper(Scheduled(a, b))
<1> DEFINE lo == Least({a, b})
           hi == Greatest({a, b})
           to == IF lo = hi THEN lo + DvBlock ELSE hi
<1>1. lo \in Int /\ hi \in Int /\ lo <= hi
  BY LeastOfTwo, GreatestOfTwo
<1>2. CASE dv.period = "hour"
  <2>1. DvBlock \in Nat
    BY DvAssumption
  <2>2. Scheduled(a, b) = [start |-> Timed(lo), end |-> Timed(to)]
    BY <1>2 DEF Scheduled
  <2> HIDE DEF lo, hi
  <2>3. to \in Int /\ lo <= to
    BY <1>1, <2>1
  <2> HIDE DEF to
  <2>4. QED
    BY <1>1, <2>2, <2>3, DaysInOrder, ValueInOrder
<1>3. CASE dv.period # "hour"
  <2> DEFINE end == IF lo = hi THEN Null ELSE Dated(hi)
  <2>1. Scheduled(a, b) = [start |-> Dated(lo), end |-> end]
    BY <1>3 DEF Scheduled
  <2> HIDE DEF lo, hi
  <2>2. /\ Dated(lo) \in DvDates /\ end \in DvDates \cup {Null}
        /\ end # Null => Dated(lo).day <= end.day /\ (Dated(lo).time = Null <=> end.time = Null)
    BY <1>1, DaysInOrder
  <2> HIDE DEF end
  <2>3. QED
    BY <2>1, <2>2, ValueInOrder
<1>4. QED
  BY <1>2, <1>3

(* Drawing it.                                                             *)
LEMMA TrayDownSound == DvInv /\ TrayDown => DvInv'
<1> SUFFICES ASSUME DvInv, TrayDown PROVE DvInv'
  OBVIOUS
<1> DEFINE V(t, u) == Scheduled(TrayStep(t), TrayStep(u))
<1>1. DvDay \in Nat /\ DvDay > 0 /\ DvDays \subseteq Int
  BY DvAssumption
<1>2. PICK r \in Tray, t \in TraySteps : \E u \in {t, t + 1, t + DvDay} :
         dv' = [[dv EXCEPT !.data[r][Axis] = V(t, u)] EXCEPT !.ops = @ - 1]
  BY DEF TrayDown, Saves, Acts
<1>3. PICK u \in {t, t + 1, t + DvDay} :
         dv' = [[dv EXCEPT !.data[r][Axis] = V(t, u)] EXCEPT !.ops = @ - 1]
  BY <1>2
<1>4. t \in Int /\ u \in Int
  <2>1. PICK d \in DvDays, k \in 0..(DvDay - 1) : t = d * DvDay + k
    BY DEF TraySteps
  <2>2. d * DvDay \in Int /\ k \in Int
    BY <1>1
  <2>3. QED
    BY <1>1, <2>1, <2>2
<1>5. \A x \in Int : TrayStep(x) \in Int
  <2>1. ASSUME NEW x \in Int PROVE (x \div DvDay) * DvDay \in Int
    BY <1>1
  <2>2. QED
    BY <2>1 DEF TrayStep, StartOfDay
<1> DEFINE v == V(t, u)
<1>6. v \in DvValues \cup {Null} /\ Proper(v)
  BY <1>4, <1>5, ScheduledInOrder
<1>7. dv' = [[dv EXCEPT !.data[r][Axis] = v] EXCEPT !.ops = @ - 1]
  BY <1>3
<1> HIDE DEF v, V
<1>8. r \in Range(DvRows) /\ DvSound(dv)
  BY DEF DvInv, DvSound, DvStates, Tray
<1>9. QED
  BY <1>6, <1>7, <1>8, SavesSound

(* Dragging an event of the calendar and dropping it on a day.             *)
LEMMA ShownAreDays ==
    ASSUME DvInv
    PROVE  \A d \in DaysShown : d \in Int
<1>1. dv.anchor \in Int /\ dv.cal \in {"day", "4days", "week", "month", "year"}
  BY DEF DvInv, DvSound, DvStates
<1>2. DvWeek \in Nat /\ DvMonth \in Nat /\ DvWeek > 0 /\ DvMonth > 0
  BY DvAssumption
<1>3. FirstOfMonth(dv.anchor) \in Int
  BY <1>1, <1>2 DEF FirstOfMonth
<1>4. QED
  BY <1>1 DEF DaysShown

(* An event that is moved keeps its length.                                *)
LEMMA RescheduleSound ==
    ASSUME DvInv, NEW r \in Range(DvRows), NEW t \in Int, Reschedule(r, t)
    PROVE  DvInv'
<1> DEFINE s == SpanOf(r)
           F(x) == IF s.allDay THEN Dated(x) ELSE Timed(x)
           n == t + s.end - s.start
           e == IF s.hasEnd THEN F(n) ELSE Null
           v == [start |-> F(t), end |-> e]
           up == [dv EXCEPT !.dragId = NoRow]
<1>1. DvSound(dv) /\ dv \in DvStates
  BY DEF DvInv, DvSound
<1>2. s.start \in Int /\ s.end \in Int /\ (s.hasEnd => s.start <= s.end)
  BY CellsHold DEF DvSpans
<1>3. dv' = [[up EXCEPT !.data[r][Axis] = v] EXCEPT !.ops = @ - 1]
  BY DEF Reschedule, Saves, Acts
<1>4. up \in DvStates /\ up.data = dv.data /\ up.drag = dv.drag /\ up.cell = dv.cell
  BY <1>1 DEF DvStates
<1> HIDE DEF up
<1>5. DvSound(up)
  BY <1>1, <1>4, SameContents
<1>6. n \in Int /\ (s.hasEnd => t <= n)
  BY <1>2
<1> HIDE DEF n
<1>7. /\ F(t) \in DvDates /\ e \in DvDates \cup {Null}
      /\ e # Null => F(t).day <= e.day /\ (F(t).time = Null <=> e.time = Null)
  <2>1. CASE s.hasEnd
    BY <1>6, <2>1, DaysInOrder
  <2>2. CASE ~s.hasEnd
    BY <2>2, DaysInOrder
  <2>3. QED
    BY <2>1, <2>2
<1> HIDE DEF e, F
<1>8. v \in DvValues \cup {Null} /\ Proper(v)
  BY <1>7, ValueInOrder
<1> HIDE DEF v
<1>9. QED
  BY <1>3, <1>5, <1>8, SavesSound

(* Picking an event up, or letting it go.                                  *)
LEMMA DragIdSound ==
    ASSUME DvInv, NEW r \in Range(DvRows) \cup {NoRow}, dv' = [[dv EXCEPT !.dragId = r] EXCEPT !.ops = @ - 1]
    PROVE  DvInv'
<1> DEFINE up == [dv EXCEPT !.dragId = r]
<1>1. DvSound(dv) /\ dv \in DvStates
  BY DEF DvInv, DvSound
<1>2. up \in DvStates /\ up.data = dv.data /\ up.drag = dv.drag /\ up.cell = dv.cell
  BY <1>1 DEF DvStates
<1> HIDE DEF up
<1>3. DvSound(up)
  BY <1>1, <1>2, SameContents
<1>4. QED
  BY <1>3, ActsSound DEF up

(* Dropping it on a day or an hour.                                        *)
LEMMA EventSound == DvInv /\ (DragEvent \/ DropEvent) => DvInv'
<1> SUFFICES ASSUME DvInv PROVE (DragEvent => DvInv') /\ (DropEvent => DvInv')
  OBVIOUS
<1>1. dv.rows \subseteq Range(DvRows) /\ dv.dragId \in Range(DvRows) \cup {NoRow}
  BY DEF DvInv, DvSound, DvStates
<1>2. DragEvent => DvInv'
  <2> SUFFICES ASSUME DragEvent PROVE DvInv'
    OBVIOUS
  <2>1. PICK r \in UNION {EventsOn(d) : d \in DaysShown} :
           dv' = [[dv EXCEPT !.dragId = r] EXCEPT !.ops = @ - 1]
    BY DEF DragEvent, Acts
  <2>2. r \in dv.rows
    BY DEF EventsOn
  <2>3. QED
    BY <1>1, <2>1, <2>2, DragIdSound
<1>3. DropEvent => DvInv'
  <2> SUFFICES ASSUME DropEvent PROVE DvInv'
    OBVIOUS
  <2> DEFINE r == dv.dragId
  <2>1. r \in Range(DvRows)
    BY <1>1 DEF DropEvent
  <2>2. CASE Acts([dv EXCEPT !.dragId = NoRow])
    BY <2>2, DragIdSound DEF Acts
  <2>3. ASSUME NEW d \in DaysShown,
               DropOnMonth(r, d) \/ DropOnAllDay(r, d) \/ \E k \in 0..DvDay : DropOnHours(r, d, k)
        PROVE  DvInv'
    <3>1. DvDay \in Nat /\ DvDay > 0
      BY DvAssumption
    <3>2. d * DvDay \in Int
      BY <3>1, ShownAreDays
    <3>3. SpanOf(r).start % DvDay \in Int
      BY <2>1, <3>1, CellsHold DEF DvSpans
    <3>4. CASE DropOnMonth(r, d)
      <4> DEFINE k == IF SpanOf(r).allDay THEN 0 ELSE SpanOf(r).start % DvDay
                 t == d * DvDay + k
      <4>1. Reschedule(r, t)
        BY <3>4 DEF DropOnMonth
      <4>2. t \in Int
        BY <3>2, <3>3
      <4> HIDE DEF t
      <4>3. QED
        BY <2>1, <4>1, <4>2, RescheduleSound
    <3>5. CASE DropOnAllDay(r, d)
      BY <2>1, <3>2, <3>5, RescheduleSound DEF DropOnAllDay
    <3>6. ASSUME NEW k \in 0..DvDay, DropOnHours(r, d, k) PROVE DvInv'
      <4> DEFINE t == d * DvDay + k
      <4>1. Reschedule(r, t)
        BY <3>6 DEF DropOnHours
      <4>2. t \in Int
        BY <3>2
      <4> HIDE DEF t
      <4>3. QED
        BY <2>1, <4>1, <4>2, RescheduleSound
    <3>7. QED
      BY <2>3, <3>4, <3>5, <3>6
  <2>4. QED
    BY <2>2, <2>3 DEF DropEvent
<1>4. QED
  BY <1>2, <1>3

(* The draft of a new row.                                                 *)
LEMMA DraftStartsAreDates ==
    ASSUME DvInv
    PROVE  \A s \in DraftStarts : s \in DvDates
<1>1. dv.anchor \in Int /\ \A d \in DaysShown : d \in Int
  BY ShownAreDays DEF DvInv, DvSound, DvStates
<1>2. DvDay \in Nat /\ DvDay > 0
  BY DvAssumption
<1>3. Dated(dv.anchor * DvDay) \in DvDates
  <2>1. dv.anchor * DvDay \in Int
    BY <1>1, <1>2
  <2>2. QED
    BY <2>1, DaysInOrder
<1>4. ASSUME NEW d \in DaysShown PROVE Dated(d * DvDay) \in DvDates
  <2>1. d * DvDay \in Int
    BY <1>1, <1>2
  <2>2. QED
    BY <2>1, DaysInOrder
<1>5. ASSUME NEW d \in DaysShown, NEW k \in 0..DvDay PROVE Timed(d * DvDay + k) \in DvDates
  <2>1. d * DvDay \in Int
    BY <1>1, <1>2
  <2>2. d * DvDay + k \in Int
    BY <2>1
  <2>3. QED
    BY <2>2, DaysInOrder
<1>6. QED
  BY <1>3, <1>4, <1>5 DEF DraftStarts

(* Opening the draft of an event, and creating it.                         *)
LEMMA DraftSound == DvInv /\ (OpenDraft \/ Draft) => DvInv'
<1> SUFFICES ASSUME DvInv PROVE (OpenDraft => DvInv') /\ (Draft => DvInv')
  OBVIOUS
<1>1. DvSound(dv) /\ dv \in DvStates
  BY DEF DvInv, DvSound
<1>2. OpenDraft => DvInv'
  <2> SUFFICES ASSUME OpenDraft PROVE DvInv'
    OBVIOUS
  <2>1. PICK s \in DraftStarts :
           dv' = [[dv EXCEPT !.draft = [start |-> s, end |-> Null]] EXCEPT !.ops = @ - 1]
    BY DEF OpenDraft, Acts
  <2> DEFINE c == [start |-> s, end |-> Null]
             t == [dv EXCEPT !.draft = c]
  <2>2. c \in DvDrafts
    BY DraftStartsAreDates DEF DvDrafts
  <2>3. dv' = [t EXCEPT !.ops = @ - 1]
    BY <2>1
  <2> HIDE DEF c
  <2>4. t \in DvStates /\ t.data = dv.data /\ t.drag = dv.drag /\ t.cell = dv.cell
    BY <1>1, <2>2 DEF DvStates
  <2> HIDE DEF t
  <2>5. QED
    BY <1>1, <2>3, <2>4, SameContents, ActsSound
<1>3. Draft => DvInv'
  <2> SUFFICES ASSUME Draft PROVE DvInv'
    OBVIOUS
  <2> DEFINE c == dv.draft
             t == [dv EXCEPT !.draft = Null]
             u == [dv EXCEPT !.draft = Null, !.rows = @ \cup {DvNew}]
  <2>1. \/ dv' = [t EXCEPT !.ops = @ - 1]
        \/ dv' = [[u EXCEPT !.data[DvNew][Axis] = c] EXCEPT !.ops = @ - 1]
    BY DEF Draft, Acts, Saves
  <2>2. c \in DvDrafts /\ DvNew \in Range(DvRows)
    BY <1>1, DvAssumption DEF Draft, DvStates
  <2>3. c \in DvValues \cup {Null} /\ Proper(c)
    BY <2>2 DEF DvDrafts, DvValues, InOrder, Alike, Proper
  <2>4. /\ t \in DvStates /\ t.data = dv.data /\ t.drag = dv.drag /\ t.cell = dv.cell
        /\ u \in DvStates /\ u.data = dv.data /\ u.drag = dv.drag /\ u.cell = dv.cell
    BY <1>1, <2>2 DEF DvStates
  <2> HIDE DEF c, t, u
  <2>5. DvSound(t) /\ DvSound(u)
    BY <1>1, <2>4, SameContents
  <2>6. QED
    BY <2>1, <2>2, <2>3, <2>5, ActsSound, SavesSound
<1>4. QED
  BY <1>2, <1>3

(* What the picker writes is in order when what it shows is.               *)
LEMMA EmittedInOrder ==
    \A c : PickerSound(c) => Emitted(c) \in DvValues \cup {Null} /\ Proper(Emitted(c))
<1> SUFFICES ASSUME NEW c, PickerSound(c)
             PROVE  Emitted(c) \in DvValues \cup {Null} /\ Proper(Emitted(c))
  OBVIOUS
<1>1. /\ c \in DvPickers /\ c.start \in DvDates \cup {Null} /\ c.end \in DvDates \cup {Null}
      /\ c.end # Null => c.withEnd /\ DayOf(c.start) <= c.end.day
  BY DEF PickerSound, DvPickers
<1>2. CASE c.start = Null
  BY <1>2 DEF Emitted, InOrder, Alike, Proper
<1>3. CASE c.start # Null
  <2> DEFINE Fix(s, time) == IF c.withTime
                             THEN [s EXCEPT !.time = IF time # Null THEN time ELSE IF @ # Null THEN @ ELSE 0]
                             ELSE [s EXCEPT !.time = Null]
             a == Fix(c.start, c.start.time)
             b == IF ~c.withEnd THEN Null
                  ELSE IF c.end = Null THEN Fix(c.start, Null) ELSE Fix(c.end, c.end.time)
  <2>1. ASSUME NEW s \in DvDates, NEW time \in Int \cup {Null}
        PROVE  Fix(s, time) \in DvDates /\ Fix(s, time).day = s.day /\ (Fix(s, time).time = Null <=> ~c.withTime)
    <3>1. s.day \in Int /\ s.time \in Int \cup {Null} /\ s = [day |-> s.day, time |-> s.time] /\ Null \notin Int
      BY DvAssumption DEF DvDates
    <3>2. CASE c.withTime
      <4> DEFINE k == IF time # Null THEN time ELSE IF s.time # Null THEN s.time ELSE 0
      <4>1. Fix(s, time) = [s EXCEPT !.time = k]
        BY <3>2
      <4>2. k \in Int /\ k # Null
        BY <3>1
      <4> HIDE DEF k, Fix
      <4>3. [s EXCEPT !.time = k] = [day |-> s.day, time |-> k]
        BY <3>1
      <4>4. QED
        BY <3>1, <3>2, <4>1, <4>2, <4>3 DEF DvDates
    <3>3. CASE ~c.withTime
      BY <3>1, <3>3 DEF DvDates
    <3>4. QED
      BY <3>2, <3>3
  <2>2. \A s \in DvDates : s.time \in Int \cup {Null}
    BY DEF DvDates
  <2>3. Emitted(c) = [start |-> a, end |-> b]
    BY <1>3 DEF Emitted
  <2>4. a \in DvDates /\ a.day = c.start.day /\ (a.time = Null <=> ~c.withTime)
    BY <1>1, <1>3, <2>1, <2>2
  <2>5. b \in DvDates \cup {Null} /\ (b # Null => a.day <= b.day /\ (a.time = Null <=> b.time = Null))
    <3>1. c.start.day \in Int
      BY <1>1, <1>3 DEF DvDates
    <3>2. CASE ~c.withEnd
      BY <3>2
    <3>3. CASE c.withEnd /\ c.end = Null
      <4>1. b = Fix(c.start, Null)
        BY <3>3
      <4> HIDE DEF Fix, b, a
      <4>2. b \in DvDates /\ b.day = c.start.day /\ (b.time = Null <=> ~c.withTime)
        BY <1>1, <1>3, <2>1, <4>1
      <4>3. QED
        BY <2>4, <3>1, <4>2
    <3>4. CASE c.withEnd /\ c.end # Null
      <4>1. b = Fix(c.end, c.end.time)
        BY <3>4
      <4> HIDE DEF Fix, b, a
      <4>2. b \in DvDates /\ b.day = c.end.day /\ (b.time = Null <=> ~c.withTime)
        BY <1>1, <3>4, <2>1, <2>2, <4>1
      <4>3. QED
        BY <1>1, <1>3, <2>4, <3>4, <4>2 DEF DayOf
    <3>5. QED
      BY <3>2, <3>3, <3>4
  <2> HIDE DEF a, b
  <2>6. QED
    BY <2>3, <2>4, <2>5, ValueInOrder
<1>4. QED
  BY <1>2, <1>3

(* Every step of the picker shows and writes at once.                      *)
LEMMA EmitSound ==
    \A c : /\ DvInv /\ PickerSound(c)
           /\ dv' = [[[dv EXCEPT !.cell = c] EXCEPT !.data[c.row][Axis] = Emitted(c)] EXCEPT !.ops = @ - 1]
           => DvInv'
<1> SUFFICES ASSUME NEW c, DvInv, PickerSound(c),
                    dv' = [[[dv EXCEPT !.cell = c] EXCEPT !.data[c.row][Axis] = Emitted(c)] EXCEPT !.ops = @ - 1]
             PROVE  DvInv'
  OBVIOUS
<1> DEFINE t == [dv EXCEPT !.cell = c]
           v == Emitted(c)
<1>1. DvSound(dv) /\ dv \in DvStates /\ c \in DvPickers
  BY DEF DvInv, DvSound, PickerSound
<1>2. t \in DvStates /\ t.data = dv.data /\ t.drag = dv.drag /\ t.cell = c
  BY <1>1 DEF DvStates
<1> HIDE DEF t
<1>3. DvSound(t)
  BY <1>1, <1>2 DEF DvSound, PickerSound
<1>4. v \in DvValues \cup {Null} /\ Proper(v) /\ c.row \in Range(DvRows)
  BY <1>1, EmittedInOrder DEF DvPickers
<1>5. dv' = [[t EXCEPT !.data[c.row][Axis] = v] EXCEPT !.ops = @ - 1]
  BY DEF t
<1> HIDE DEF v
<1>6. QED
  BY <1>3, <1>4, <1>5, SavesSound

(* What it shows after a day was clicked.                                  *)
LEMMA PickedSound ==
    ASSUME NEW c, PickerSound(c), NEW d \in Int, NEW k \in Int
    PROVE  /\ PickerSound([c EXCEPT !.start = At9(c, d), !.end = Null])
           /\ ~c.withEnd => PickerSound([c EXCEPT !.start = At9(c, d)])
           /\ c.start # Null /\ c.end = Null => PickerSound([c EXCEPT !.start = At9(c, d)])
           /\ c.withEnd /\ c.start # Null /\ c.start.day <= d => PickerSound([c EXCEPT !.end = At5(c, d)])
           /\ PickerSound([c EXCEPT !.start = [day |-> DayOf(@), time |-> k]])
           /\ c.withEnd => PickerSound([c EXCEPT !.end = [day |-> IF @ = Null THEN DayOf(c.start) ELSE @.day,
                                                          time |-> k]])
           /\ PickerSound([c EXCEPT !.withEnd = ~@, !.end = IF c.withEnd THEN Null ELSE @])
           /\ PickerSound([c EXCEPT !.withTime = ~@])
<1>1. /\ c \in DvPickers /\ c.start \in DvDates \cup {Null} /\ c.end \in DvDates \cup {Null}
      /\ c.withEnd \in BOOLEAN /\ c.withTime \in BOOLEAN /\ c.row \in Range(DvRows)
      /\ c = [row |-> c.row, start |-> c.start, end |-> c.end, withTime |-> c.withTime, withEnd |-> c.withEnd]
      /\ c.end # Null => c.withEnd /\ DayOf(c.start) <= c.end.day
  BY DEF PickerSound, DvPickers
<1>2. Today \in Int /\ Null \notin DvDates /\ DvNine \in Int /\ DvFive \in Int
  <2>1. DvNow \in Int /\ DvDay \in Nat /\ DvDay > 0 /\ Null \notin DvDates /\ DvNine \in Int /\ DvFive \in Int
    BY DvAssumption
  <2>2. QED
    BY <2>1 DEF Today
<1>3. At9(c, d) \in DvDates /\ At9(c, d).day = d /\ At5(c, d) \in DvDates /\ At5(c, d).day = d
  BY <1>1, <1>2 DEF At9, At5, DvDates
<1>4. \A s \in DvDates \cup {Null} : DayOf(s) \in Int
  BY <1>2 DEF DayOf, DvDates
<1>5. \A s \in DvDates : s # Null /\ s.day \in Int
  BY <1>2 DEF DvDates
<1> DEFINE a == At9(c, d)
           b == At5(c, d)
<1>6. PickerSound([c EXCEPT !.start = a, !.end = Null]) /\ (c.end = Null \/ ~c.withEnd => PickerSound([c EXCEPT !.start = a]))
  <2>1. a \in DvDates
    BY <1>3
  <2> HIDE DEF a
  <2>2. \A t \in {[c EXCEPT !.start = a, !.end = Null], [c EXCEPT !.start = a]} :
           /\ t \in DvPickers /\ t.end \in {c.end, Null}
    BY <1>1, <2>1 DEF DvPickers
  <2>3. [c EXCEPT !.start = a, !.end = Null].end = Null /\ [c EXCEPT !.start = a].end = c.end
    BY <1>1 DEF DvPickers
  <2>4. QED
    BY <1>1, <2>2, <2>3 DEF PickerSound
<1>7. c.withEnd /\ c.start # Null /\ c.start.day <= d => PickerSound([c EXCEPT !.end = b])
  <2>1. b \in DvDates /\ b.day = d
    BY <1>3
  <2> HIDE DEF b
  <2>2. [c EXCEPT !.end = b] \in DvPickers /\ [c EXCEPT !.end = b].end = b
        /\ [c EXCEPT !.end = b].start = c.start /\ [c EXCEPT !.end = b].withEnd = c.withEnd
    BY <1>1, <2>1 DEF DvPickers
  <2>3. QED
    BY <1>1, <2>1, <2>2 DEF PickerSound, DayOf
<1>8. PickerSound([c EXCEPT !.start = [day |-> DayOf(@), time |-> k]])
  <2> DEFINE x == [day |-> DayOf(c.start), time |-> k]
             t == [c EXCEPT !.start = x]
  <2>1. x \in DvDates /\ DayOf(x) = DayOf(c.start)
    <3>1. x \in DvDates /\ x.day = DayOf(c.start)
      BY <1>1, <1>4 DEF DvDates
    <3> HIDE DEF x
    <3>2. QED
      BY <1>5, <3>1 DEF DayOf
  <2> HIDE DEF x
  <2>2. t \in DvPickers /\ t.end = c.end /\ t.start = x /\ t.withEnd = c.withEnd
    BY <1>1, <2>1 DEF DvPickers
  <2> HIDE DEF t
  <2>3. PickerSound(t)
    BY <1>1, <2>1, <2>2 DEF PickerSound
  <2>4. QED
    BY <2>3 DEF t, x
<1>9. c.withEnd => PickerSound([c EXCEPT !.end = [day |-> IF @ = Null THEN DayOf(c.start) ELSE @.day, time |-> k]])
  <2> DEFINE n == IF c.end = Null THEN DayOf(c.start) ELSE c.end.day
             x == [day |-> n, time |-> k]
             t == [c EXCEPT !.end = x]
  <2>1. n \in Int /\ DayOf(c.start) <= n
    BY <1>1, <1>4, <1>5
  <2> HIDE DEF n
  <2>2. x \in DvDates /\ x.day = n
    BY <2>1 DEF DvDates
  <2> HIDE DEF x
  <2>3. t \in DvPickers /\ t.end = x /\ t.start = c.start /\ t.withEnd = c.withEnd
    BY <1>1, <2>2 DEF DvPickers
  <2> HIDE DEF t
  <2>4. c.withEnd => PickerSound(t)
    BY <1>1, <2>1, <2>2, <2>3 DEF PickerSound
  <2>5. QED
    BY <2>4 DEF t, x, n
<1>10. PickerSound([c EXCEPT !.withEnd = ~@, !.end = IF c.withEnd THEN Null ELSE @])
  <2> DEFINE w == ~c.withEnd
             e == IF c.withEnd THEN Null ELSE c.end
             t == [c EXCEPT !.withEnd = w, !.end = e]
  <2>1. w \in BOOLEAN /\ e \in DvDates \cup {Null} /\ e = Null
    BY <1>1
  <2> HIDE DEF w, e
  <2>2. t \in DvPickers /\ t.end = e
    BY <1>1, <2>1 DEF DvPickers
  <2> HIDE DEF t
  <2>3. PickerSound(t)
    BY <2>1, <2>2 DEF PickerSound
  <2>4. QED
    BY <2>3 DEF t, w, e
<1>11. PickerSound([c EXCEPT !.withTime = ~@])
  <2> DEFINE w == ~c.withTime
             t == [c EXCEPT !.withTime = w]
  <2>1. w \in BOOLEAN
    OBVIOUS
  <2> HIDE DEF w
  <2>2. t \in DvPickers /\ t.end = c.end /\ t.start = c.start /\ t.withEnd = c.withEnd
    BY <1>1, <2>1 DEF DvPickers
  <2> HIDE DEF t
  <2>3. PickerSound(t)
    BY <1>1, <2>2 DEF PickerSound
  <2>4. QED
    BY <2>3 DEF t, w
<1>12. QED
  BY <1>6, <1>7, <1>8, <1>9, <1>10, <1>11

(* Days, times and the two switches of the picker.                         *)
LEMMA PickerActs ==
    DvInv /\ dv.cell # Closed =>
        /\ \A d \in DvDays : PickDay(dv.cell, d) => DvInv'
        /\ \A k \in DvTimes : PickTime(dv.cell, k) => DvInv'
        /\ ToggleEnd(dv.cell) \/ ToggleTime(dv.cell) => DvInv'
<1> SUFFICES ASSUME DvInv, dv.cell # Closed
             PROVE  /\ \A d \in DvDays : PickDay(dv.cell, d) => DvInv'
                    /\ \A k \in DvTimes : PickTime(dv.cell, k) => DvInv'
                    /\ ToggleEnd(dv.cell) \/ ToggleTime(dv.cell) => DvInv'
  OBVIOUS
<1> DEFINE c == dv.cell
<1>1. PickerSound(c) /\ c \in DvPickers
  BY DEF DvInv, DvSound, PickerSound
<1>2. DvDays \subseteq Int /\ DvTimes \subseteq Int
  BY DvAssumption
<1>3. ASSUME NEW d \in DvDays, PickDay(c, d) PROVE DvInv'
  <2> DEFINE p == [c EXCEPT !.start = At9(c, d)]
             q == [c EXCEPT !.start = At9(c, d), !.end = Null]
             e == [c EXCEPT !.end = At5(c, d)]
             Writes(y) == dv' = [[[dv EXCEPT !.cell = y] EXCEPT !.data[y.row][Axis] = Emitted(y)] EXCEPT !.ops = @ - 1]
  <2>1. d \in Int /\ 0 \in Int
    BY <1>2
  <2>2. /\ ~c.withEnd => Writes(p)
        /\ c.withEnd /\ (c.start = Null \/ c.end # Null) => Writes(q)
        /\ c.withEnd /\ c.start # Null /\ c.end = Null /\ d < c.start.day => Writes(p)
        /\ c.withEnd /\ c.start # Null /\ c.end = Null /\ ~(d < c.start.day) => Writes(e)
    BY <1>3 DEF PickDay, Emit, Saves, Acts
  <2> HIDE DEF c, Writes
  <2>3. c.start # Null => c.start.day \in Int
    BY <1>1 DEF DvPickers, DvDates
  <2>4. /\ PickerSound(q) /\ (~c.withEnd => PickerSound(p))
        /\ c.start # Null /\ c.end = Null => PickerSound(p)
        /\ c.withEnd /\ c.start # Null /\ c.start.day <= d => PickerSound(e)
    BY <1>1, <2>1, PickedSound
  <2> HIDE DEF p, q, e
  <2>5. \/ PickerSound(p) /\ Writes(p)
        \/ PickerSound(q) /\ Writes(q)
        \/ PickerSound(e) /\ Writes(e)
    BY <2>1, <2>2, <2>3, <2>4
  <2>6. QED
    BY <2>5, EmitSound DEF Writes
<1>4. ASSUME NEW k \in DvTimes, PickTime(c, k) PROVE DvInv'
  <2> DEFINE p == [c EXCEPT !.start = [day |-> DayOf(@), time |-> k]]
             q == [c EXCEPT !.end = [day |-> IF @ = Null THEN DayOf(c.start) ELSE @.day, time |-> k]]
             Writes(y) == dv' = [[[dv EXCEPT !.cell = y] EXCEPT !.data[y.row][Axis] = Emitted(y)] EXCEPT !.ops = @ - 1]
  <2>1. k \in Int /\ 0 \in Int
    BY <1>2
  <2>2. Writes(p) \/ (c.withEnd /\ Writes(q))
    BY <1>4 DEF PickTime, Emit, Saves, Acts
  <2> HIDE DEF c, Writes
  <2>3. PickerSound(p) /\ (c.withEnd => PickerSound(q))
    BY <1>1, <2>1, PickedSound
  <2> HIDE DEF p, q
  <2>4. QED
    BY <2>2, <2>3, EmitSound DEF Writes
<1>5. ASSUME ToggleEnd(c) \/ ToggleTime(c) PROVE DvInv'
  <2> DEFINE p == [c EXCEPT !.withEnd = ~@, !.end = IF c.withEnd THEN Null ELSE @]
             q == [c EXCEPT !.withTime = ~@]
             Writes(y) == dv' = [[[dv EXCEPT !.cell = y] EXCEPT !.data[y.row][Axis] = Emitted(y)] EXCEPT !.ops = @ - 1]
  <2>1. Writes(p) \/ Writes(q)
    BY <1>5 DEF ToggleEnd, ToggleTime, Emit, Saves, Acts
  <2> HIDE DEF c, Writes
  <2>2. PickerSound(p) /\ PickerSound(q)
    <3>1. 0 \in Int
      OBVIOUS
    <3>2. QED
      BY <1>1, <3>1, PickedSound
  <2> HIDE DEF p, q
  <2>3. QED
    BY <2>1, <2>2, EmitSound DEF Writes
<1>6. QED
  BY <1>3, <1>4, <1>5

(* The picker opens with what its cell holds.                              *)
LEMMA OpenCellSound == DvInv /\ OpenCell => DvInv'
<1> SUFFICES ASSUME DvInv, OpenCell PROVE DvInv'
  OBVIOUS
<1> DEFINE HasTime(s) == s # Null /\ s.time # Null
           C(r, v) == IF v = Null THEN [row |-> r, start |-> Null, end |-> Null, withTime |-> FALSE, withEnd |-> FALSE]
                      ELSE [row |-> r, start |-> v.start, end |-> v.end, withEnd |-> v.end # Null,
                            withTime |-> HasTime(v.start) \/ HasTime(v.end)]
<1>1. PICK r \in dv.rows : dv' = [[dv EXCEPT !.cell = C(r, dv.data[r][Axis])] EXCEPT !.ops = @ - 1]
  BY DEF OpenCell, Acts
<1> DEFINE v == dv.data[r][Axis]
           c == C(r, v)
           t == [dv EXCEPT !.cell = c]
<1>2. DvSound(dv) /\ dv \in DvStates /\ r \in Range(DvRows)
  BY DEF DvInv, DvSound, DvStates
<1>3. v \in DvValues \cup {Null} /\ Proper(v)
  BY <1>2, CellsHold
<1>4. dv' = [t EXCEPT !.ops = @ - 1]
  BY <1>1
<1> HIDE DEF v
<1>5. c \in DvPickers /\ (c.end # Null => c.withEnd /\ DayOf(c.start) <= c.end.day)
  <2>1. CASE v = Null
    BY <1>2, <2>1 DEF DvPickers
  <2>2. CASE v # Null
    <3>1. v.start \in DvDates /\ v.end \in DvDates \cup {Null} /\ v.start # Null
      BY <1>3, <2>2, DvAssumption DEF DvValues
    <3>2. v.end # Null => v.start.day <= v.end.day
      BY <1>3, <2>2 DEF InOrder, Proper
    <3> DEFINE w == HasTime(v.start) \/ HasTime(v.end)
               e == v.end # Null
    <3>3. c = [row |-> r, start |-> v.start, end |-> v.end, withTime |-> w, withEnd |-> e]
      BY <2>2
    <3>4. w \in BOOLEAN /\ e \in BOOLEAN
      OBVIOUS
    <3> HIDE DEF c, w
    <3>5. QED
      BY <1>2, <3>1, <3>2, <3>3, <3>4 DEF DvPickers, DayOf
  <2>3. QED
    BY <2>1, <2>2
<1> HIDE DEF c
<1>6. t \in DvStates /\ t.data = dv.data /\ t.drag = dv.drag /\ t.cell = c
  BY <1>2, <1>5 DEF DvStates
<1> HIDE DEF t
<1>7. DvSound(t)
  BY <1>2, <1>5, <1>6 DEF DvSound, PickerSound
<1>8. QED
  BY <1>4, <1>7, ActsSound

(* Opening a view of the rows.                                             *)
LEMMA OpenedSound ==
    ASSUME NEW mode \in {"gantt", "calendar", "table"},
           NEW rows \in SUBSET Range(DvRows), NEW data \in DvData,
           NEW picked \in Range(DvFields) \cup {NoField}, NEW period \in DOMAIN DvPeriods,
           NEW cal \in {"day", "4days", "week", "month", "year"}, NEW ops \in Int, NEW s,
           s.rows = rows, s.data = data, s.picked = picked, s.period = period, s.cal = cal, s.ops = ops,
           \A r \in Range(DvRows), f \in Range(DvFields) : Proper(data[r][f])
    PROVE  DvSound(Opened(mode, s))
<1> DEFINE t == Opened(mode, s)
<1>1. Today \in Int
  <2>1. DvNow \in Int /\ DvDay \in Nat /\ DvDay > 0
    BY DvAssumption
  <2>2. QED
    BY <2>1 DEF Today
<1>2. t \in DvStates /\ t.data = data /\ t.drag = Closed /\ t.cell = Closed
  BY <1>1 DEF Opened, DvStates
<1> HIDE DEF t
<1>3. DvSound(t)
  BY <1>2 DEF DvSound
<1>4. QED
  BY <1>3 DEF t

(* Another view of the database.                                           *)
LEMMA SwitchTabSound == DvInv /\ SwitchTab => DvInv'
<1> SUFFICES ASSUME DvInv, SwitchTab PROVE DvInv'
  OBVIOUS
<1>1. PICK mode \in {"gantt", "calendar", "table"} : dv' = [Opened(mode, dv) EXCEPT !.ops = @ - 1]
  BY DEF SwitchTab, Acts
<1>2. DvSound(Opened(mode, dv))
  <2>1. /\ dv.rows \in SUBSET Range(DvRows) /\ dv.data \in DvData
        /\ dv.picked \in Range(DvFields) \cup {NoField} /\ dv.period \in DOMAIN DvPeriods
        /\ dv.cal \in {"day", "4days", "week", "month", "year"} /\ dv.ops \in Int
        /\ \A r \in Range(DvRows), f \in Range(DvFields) : Proper(dv.data[r][f])
    BY DEF DvInv, DvSound, DvStates
  <2>2. QED
    BY <2>1, OpenedSound, SMTT(30)
<1>3. QED
  BY <1>1, <1>2, ActsSound

(* The tab opens with cells that are in order.                             *)
LEMMA DvInitInv == DvInit => DvInv
<1> SUFFICES ASSUME DvInit PROVE DvInv
  OBVIOUS
<1> DEFINE S(cells, period, cal) ==
             [rows |-> Range(DvRows) \ {DvNew}, data |-> cells, picked |-> NoField,
              period |-> period, cal |-> cal, ops |-> DvOps]
<1>1. PICK mode \in {"gantt", "calendar", "table"}, cells \in DvCells,
           period \in DOMAIN DvPeriods, cal \in {"day", "week", "month"} :
              dv = Opened(mode, S(cells, period, cal))
  BY DEF DvInit
<1> DEFINE s == S(cells, period, cal)
<1>2. /\ s.rows = Range(DvRows) \ {DvNew} /\ s.data = cells /\ s.picked = NoField
      /\ s.period = period /\ s.cal = cal /\ s.ops = DvOps
  OBVIOUS
<1>3. cells \in DvData /\ DvOps \in Int /\ \A r \in Range(DvRows), f \in Range(DvFields) : Proper(cells[r][f])
  BY DvAssumption DEF DvData, Proper
<1> HIDE DEF s
<1>4. DvSound(Opened(mode, s))
  BY <1>2, <1>3, OpenedSound
<1>5. QED
  BY <1>1, <1>4 DEF DvInv, s

(* Every action of the date views keeps the invariant.                     *)
LEMMA DvNextInv == DvInv /\ [DvNext]_dv => DvInv'
<1> SUFFICES ASSUME DvInv, [DvNext]_dv PROVE DvInv'
  OBVIOUS
<1>1. CASE Gantt
  <2>1. CASE dv.drag # Closed /\ (DragOn \/ DropBar)
    BY <2>1, DragOnSound, DropBarSound
  <2>2. CASE Extend \/ LoadMoreBars \/ Controls \/ AddBar \/ BeginDrag \/ TrayDown
    BY <2>2, ControlsSound, AddBarSound, PressSound, TrayDownSound
  <2>3. QED
    BY <1>1, <2>1, <2>2 DEF Gantt
<1>2. CASE Calendar
  BY <1>2, DraftSound, ControlsSound, EventSound DEF Calendar
<1>3. CASE DateCell
  BY <1>3, OpenCellSound, PickerActs DEF DateCell
<1>4. CASE SwitchTab
  BY <1>4, SwitchTabSound
<1>5. CASE UNCHANGED dv
  BY <1>5 DEF DvInv
<1>6. QED
  BY <1>1, <1>2, <1>3, <1>4, <1>5 DEF DvNext

-----------------------------------------------------------------------------
(* The window of the Gantt view.                                           *)

LEMMA LeastOf ==
    ASSUME NEW S \in SUBSET Int, IsFiniteSet(S), S # {}
    PROVE  Least(S) \in S /\ \A x \in S : Least(S) <= x
BY FiniteHasLeast DEF Least

(* What the greatest of a finite set of instants is.                       *)
LEMMA GreatestOf ==
    ASSUME NEW S \in SUBSET Int, IsFiniteSet(S), S # {}
    PROVE  Greatest(S) \in S /\ \A x \in S : x <= Greatest(S)
BY FiniteHasGreatest DEF Greatest

(* No unit of the axis is empty.                                           *)
LEMMA UnitsArePositive ==
    ASSUME NEW u \in DvUnits
    PROVE  Unit(u) \in Nat /\ Unit(u) > 0
<1>1. /\ DvDay \in Nat /\ DvDay > 0 /\ DvHour \in Nat /\ DvHour > 0 /\ DvWeek \in Nat /\ DvWeek > 0
      /\ DvMonth \in Nat /\ DvMonth > 0 /\ DvYear \in Nat /\ DvYear > 0
  BY DvAssumption
<1>2. \A a, b \in Nat : a > 0 /\ b > 0 => a * b \in Nat /\ a * b > 0
  OBVIOUS
<1>3. DvWeek * DvDay \in Nat /\ DvWeek * DvDay > 0 /\ DvMonth * DvDay \in Nat /\ DvMonth * DvDay > 0
  BY <1>1, <1>2
<1>4. 2 * DvWeek \in Nat /\ 2 * DvWeek > 0 /\ 3 * DvMonth \in Nat /\ 3 * DvMonth > 0
  BY <1>1
<1>5. DvYear * DvMonth \in Nat /\ DvYear * DvMonth > 0
  BY <1>1, <1>2
<1>6. /\ 2 * DvWeek * DvDay \in Nat /\ 2 * DvWeek * DvDay > 0
      /\ 3 * DvMonth * DvDay \in Nat /\ 3 * DvMonth * DvDay > 0
      /\ DvYear * DvMonth * DvDay \in Nat /\ DvYear * DvMonth * DvDay > 0
  BY <1>1, <1>2, <1>4, <1>5
<1>7. QED
  BY <1>1, <1>3, <1>6 DEF Unit, DvUnits

(* The columns begin no later than what they are for, and reach its end if *)
(* there are not too many.                                                 *)
LEMMA TicksReach ==
    ASSUME NEW from \in Int, NEW to \in Int, from <= to, NEW u \in DvUnits
    PROVE  LET ticks == UnitTicks(from, to, u)
           IN /\ Least(ticks) <= from
              /\ Cardinality(ticks) < DvTicks => to < Greatest(ticks) + Unit(u)
<1> DEFINE U == Unit(u)
           first == AlignDown(from, u)
           q == (to - first) \div U
           n == Least({DvTicks, 1 + q})
           K == 0..(n - 1)
           f == [k \in K |-> first + k * U]
           ticks == UnitTicks(from, to, u)
<1>1. U \in Nat /\ U > 0
  BY UnitsArePositive
<1>2. first \in Int /\ first <= from
  <2> DEFINE w == Unit(IF u = "biweek" THEN "week" ELSE u)
  <2>1. w \in Nat /\ w > 0
    BY UnitsArePositive DEF DvUnits
  <2>2. first = from - (from % w)
    BY DEF AlignDown
  <2> HIDE DEF w
  <2>3. from % w \in Nat
    BY <2>1
  <2> HIDE DEF first
  <2>4. QED
    BY <2>2, <2>3
<1> HIDE DEF U, first
<1>3. q \in Int /\ 0 <= q /\ to - first < (q + 1) * U
  BY <1>1, <1>2, SMT
<1> HIDE DEF q
<1>4. n \in Nat /\ 1 <= n /\ (n < DvTicks => n = 1 + q)
  <2>1. DvTicks \in Nat /\ DvTicks > 0
    BY DvAssumption
  <2>2. n = IF DvTicks < 1 + q THEN DvTicks ELSE 1 + q
    BY <1>3, <2>1, LeastOfTwo
  <2> HIDE DEF n
  <2>3. QED
    BY <1>3, <2>1, <2>2
<1>5. ticks = {first + k * U : k \in K}
  BY DEF UnitTicks, U, first, q
<1> HIDE DEF n, ticks
<1>6. \A k \in K : f[k] = first + k * U /\ f[k] \in Int
  <2>1. ASSUME NEW k \in K PROVE k * U \in Int
    BY <1>1
  <2>2. QED
    BY <1>2, <2>1
<1>7. ticks = {f[k] : k \in K} /\ f \in [K -> ticks]
  BY <1>5, <1>6
<1>8. \A a, b \in K : f[a] = f[b] => a = b
  <2> SUFFICES ASSUME NEW a \in K, NEW b \in K, f[a] = f[b] PROVE a = b
    OBVIOUS
  <2>1. a \in Int /\ b \in Int /\ a * U = b * U
    <3>1. a * U \in Int /\ b * U \in Int /\ a \in Int /\ b \in Int
      BY <1>1
    <3>2. first + a * U = first + b * U
      BY <1>6
    <3>3. QED
      BY <1>2, <3>1, <3>2
  <2> HIDE DEF f, K
  <2>2. QED
    BY <1>1, <2>1
<1> HIDE DEF f
<1>9. IsFiniteSet(K) /\ Cardinality(K) = n
  BY <1>4, FS_Interval
<1>10. f \in Bijection(K, ticks)
  BY <1>7, <1>8 DEF Bijection, Injection, Surjection, IsInjective
<1>11. IsFiniteSet(ticks) /\ Cardinality(ticks) = n
  BY <1>9, <1>10, FS_Bijection DEF ExistsBijection
<1>12. ticks \in SUBSET Int /\ 0 \in K /\ n - 1 \in K
  BY <1>4, <1>6, <1>7
<1>13. f[0] \in ticks /\ f[n - 1] \in ticks /\ f[0] = first /\ f[n - 1] = first + (n - 1) * U
  <2>1. 0 * U = 0
    BY <1>1
  <2>2. QED
    BY <1>2, <1>6, <1>7, <1>12, <2>1
<1>14. Least(ticks) \in Int /\ Least(ticks) <= first /\ Greatest(ticks) \in Int /\ f[n - 1] <= Greatest(ticks)
  BY <1>11, <1>12, <1>13, LeastOf, GreatestOf
<1>15. Least(ticks) <= from
  BY <1>2, <1>14
<1>16. ASSUME n < DvTicks PROVE to < Greatest(ticks) + U
  <2>1. n = 1 + q
    BY <1>4, <1>16
  <2>2. f[n - 1] = first + q * U
    BY <1>3, <1>13, <2>1
  <2>3. q * U \in Int /\ (q + 1) * U = q * U + U
    BY <1>1, <1>3
  <2>4. QED
    BY <1>1, <1>2, <1>3, <1>14, <2>2, <2>3
<1>17. QED
  BY <1>11, <1>15, <1>16 DEF ticks, U

(* An instant lies in its day.                                             *)
LEMMA DayBegins ==
    ASSUME NEW t \in Int
    PROVE  StartOfDay(t) \in Int /\ StartOfDay(t) <= t /\ t < StartOfDay(t) + DvDay
<1>1. DvDay \in Nat /\ DvDay > 0
  BY DvAssumption
<1>2. (t \div DvDay) * DvDay \in Int /\ (t \div DvDay) * DvDay <= t /\ t < (t \div DvDay) * DvDay + DvDay
  BY <1>1, SMT
<1>3. QED
  BY <1>2 DEF StartOfDay

(* The window reaches from before every bar to after it.                   *)
LEMMA WindowIsWide ==
    ASSUME DvInv
    PROVE  /\ Window.from \in Int /\ Window.to \in Int
           /\ Window.from <= DvNow /\ DvNow < Window.to
           /\ \A r \in Bars : Window.from <= SpanOf(r).start /\ DrawnTo(SpanOf(r)) <= Window.to
<1> DEFINE side == Period.window * DvDay
           spans == {SpanOf(r) : r \in Bars}
           a == StartOfDay(DvNow) - (1 + dv.before) * side
           b == StartOfDay(DvNow) + (1 + dv.after) * side
           S == {a} \cup {s.start : s \in spans}
           E == {b} \cup {s.end : s \in spans}
           f == [r \in Bars |-> SpanOf(r).start]
           g == [r \in Bars |-> SpanOf(r).end]
<1>1. /\ dv.rows \subseteq Range(DvRows) /\ dv.before \in Nat /\ dv.after \in Nat
      /\ dv.period \in DOMAIN DvPeriods
  BY DEF DvInv, DvSound, DvStates
<1>2. /\ DvDay \in Nat /\ DvDay > 0 /\ DvNow \in Int /\ Period.window \in Nat
      /\ DvRows \in Seq(Range(DvRows))
  BY <1>1, DvAssumption, SMTT(30) DEF Period
<1>3. side \in Nat
  BY <1>2
<1> HIDE DEF side
<1>4. (1 + dv.before) * side \in Nat /\ (1 + dv.after) * side \in Nat
  BY <1>1, <1>3
<1>5. StartOfDay(DvNow) \in Int /\ StartOfDay(DvNow) <= DvNow /\ DvNow < StartOfDay(DvNow) + DvDay
  BY <1>2, DayBegins
<1>6. a \in Int /\ a <= DvNow /\ b \in Int /\ DvNow < b + DvDay
  BY <1>2, <1>4, <1>5, SMTT(30)
<1> HIDE DEF a, b
<1>7. \A r \in Bars : SpanOf(r).start \in Int /\ SpanOf(r).end \in Int
  BY <1>1, CellsHold DEF Bars, DatedRows, DvSpans
<1>8. IsFiniteSet(Bars)
  BY <1>1, <1>2, RangeIsFinite, FS_Subset DEF Bars, DatedRows
<1>9. S = {a} \cup {f[r] : r \in Bars} /\ E = {b} \cup {g[r] : r \in Bars}
  OBVIOUS
<1>10. \A r \in Bars : f[r] = SpanOf(r).start /\ g[r] = SpanOf(r).end
  OBVIOUS
<1>11. DOMAIN f = Bars /\ DOMAIN g = Bars
  OBVIOUS
<1> DEFINE L == Least(S)
           G == Greatest(E)
           M == Greatest({3, (Period.window + 5) \div 10})
<1>12. Window = [from |-> StartOfDay(L) - Margin, to |-> StartOfDay(G) + Margin]
  BY DEF Window, side, a, b
<1>13. Margin = M * DvDay
  BY DEF Margin
<1> HIDE DEF S, E, f, g
<1>14. IsFiniteSet({f[r] : r \in Bars}) /\ IsFiniteSet({g[r] : r \in Bars})
  BY <1>8, <1>11, FiniteImage
<1>15. IsFiniteSet(S) /\ IsFiniteSet(E)
  BY <1>9, <1>14, FS_Singleton, FS_Union
<1>16. S \in SUBSET Int /\ a \in S /\ E \in SUBSET Int /\ b \in E
  BY <1>6, <1>7, <1>9, <1>10
<1>17. /\ L \in Int /\ \A x \in S : L <= x
       /\ G \in Int /\ \A x \in E : x <= G
  BY <1>15, <1>16, LeastOf, GreatestOf
<1> HIDE DEF L, G
<1>18. /\ StartOfDay(L) \in Int /\ StartOfDay(L) <= L
       /\ StartOfDay(G) \in Int /\ G < StartOfDay(G) + DvDay
  BY <1>17, DayBegins
<1>19. M \in Int /\ 3 <= M
  <2>1. (Period.window + 5) \div 10 \in Int
    BY <1>2
  <2>2. QED
    BY <2>1, GreatestOfTwo
<1> HIDE DEF M
<1>20. Margin \in Int /\ 3 * DvDay <= Margin
  BY <1>2, <1>13, <1>19, SMT
<1>21. /\ Window.from \in Int /\ Window.from <= L
       /\ Window.to \in Int /\ G + DvDay <= Window.to
  <2>1. Window.from = StartOfDay(L) - Margin /\ Window.to = StartOfDay(G) + Margin
    BY <1>12
  <2>2. Window.from \in Int /\ Window.to \in Int
    BY <1>18, <1>20, <2>1
  <2>3. StartOfDay(L) - Margin <= L /\ G + DvDay <= StartOfDay(G) + Margin
    <3> DEFINE s == StartOfDay(L)
               t == StartOfDay(G)
               m == Margin
    <3>1. /\ s \in Int /\ s <= L /\ t \in Int /\ G < t + DvDay /\ L \in Int /\ G \in Int
          /\ m \in Int /\ 3 * DvDay <= m /\ DvDay \in Int /\ DvDay > 0
      BY <1>2, <1>17, <1>18, <1>20
    <3> HIDE DEF s, t, m
    <3>2. s - m <= L /\ G + DvDay <= t + m
      BY <3>1
    <3> QED
      BY <3>2 DEF s, t, m
  <2>4. QED
    BY <2>1, <2>2, <2>3
<1>22. Window.from <= DvNow /\ DvNow < Window.to
  BY <1>2, <1>6, <1>16, <1>17, <1>21
<1>23. ASSUME NEW r \in Bars PROVE Window.from <= SpanOf(r).start /\ DrawnTo(SpanOf(r)) <= Window.to
  <2>1. SpanOf(r).start \in S /\ SpanOf(r).end \in E
    BY <1>9, <1>10
  <2>2. SpanOf(r).start \in Int /\ SpanOf(r).end \in Int
    BY <1>7
  <2>3. L <= SpanOf(r).start /\ SpanOf(r).end <= G
    BY <1>17, <2>1
  <2>4. DrawnTo(SpanOf(r)) \in Int /\ DrawnTo(SpanOf(r)) <= SpanOf(r).end + DvDay
    BY <1>2, <2>2 DEF DrawnTo
  <2> DEFINE x == SpanOf(r).start
             y == SpanOf(r).end
             z == DrawnTo(SpanOf(r))
             from == Window.from
             to == Window.to
  <2>5. from \in Int /\ to \in Int /\ from <= L /\ G + DvDay <= to /\ L \in Int /\ G \in Int /\ DvDay \in Int
    BY <1>2, <1>17, <1>21
  <2>6. x \in Int /\ y \in Int /\ z \in Int /\ L <= x /\ y <= G /\ z <= y + DvDay
    BY <2>2, <2>3, <2>4
  <2> HIDE DEF x, y, z, from, to
  <2>7. from <= x /\ z <= to
    BY <2>5, <2>6
  <2>8. QED
    BY <2>7 DEF x, y, z, from, to
<1>24. QED
  BY <1>21, <1>22, <1>23

(* So every bar is drawn inside the window.                                *)
LEMMA DvInvHoldsBars == DvInv => WindowHoldsBars
<1> SUFFICES ASSUME DvInv PROVE WindowHoldsBars
  OBVIOUS
<1>1. Period.minor \in DvUnits /\ Period.major \in DvUnits
  <2>1. dv.period \in DOMAIN DvPeriods
    BY DEF DvInv, DvSound, DvStates
  <2>2. QED
    BY <2>1, DvAssumption DEF Period
<1> DEFINE w == Window
<1>2. /\ w.from \in Int /\ w.to \in Int /\ w.from <= DvNow /\ DvNow < w.to
      /\ \A r \in Bars : w.from <= SpanOf(r).start /\ DrawnTo(SpanOf(r)) <= w.to
  BY WindowIsWide
<1> HIDE DEF w
<1>3. w.from <= w.to
  <2>1. DvNow \in Int
    BY DvAssumption
  <2>2. QED
    BY <1>2, <2>1
<1>4. \A u \in {Period.minor, Period.major} :
         LET ticks == UnitTicks(w.from, w.to, u)
         IN Least(ticks) <= w.from /\ (Cardinality(ticks) < DvTicks => w.to < Greatest(ticks) + Unit(u))
  BY <1>1, <1>2, <1>3, TicksReach
<1>5. QED
  BY <1>2, <1>4 DEF WindowHoldsBars, w

-----------------------------------------------------------------------------
(* What the pointer holds: the bar is what it was when it was pressed, and *)
(* the event is of a row.                                                  *)

DvHeld ==
    /\ dv.drag # Closed => dv.mode = "gantt" /\ dv.drag.span = SpanOf(dv.drag.row)
    /\ dv.dragId # NoRow => dv.dragId \in dv.rows

(* A step that takes hold of nothing.                                      *)
DvTakesNothing ==
    /\ dv'.drag \in {dv.drag, Closed} /\ dv'.dragId \in {dv.dragId, NoRow}
    /\ dv.rows \subseteq dv'.rows

(* The parts of the state that the next lemmas speak of.                   *)
LEMMA FieldsOf == DvInv => {"drag", "dragId", "rows", "ops", "data"} \subseteq DOMAIN dv
BY DEF DvInv, DvSound, DvStates

(* Which actions start no drag and delete no row.                          *)
LEMMA ActsTakesNothing ==
    \A n : /\ {"drag", "dragId", "rows"} \subseteq DOMAIN n /\ dv' = [n EXCEPT !.ops = @ - 1]
           /\ n.drag \in {dv.drag, Closed} /\ n.dragId \in {dv.dragId, NoRow} /\ dv.rows \subseteq n.rows
           => DvTakesNothing
BY DEF DvTakesNothing

(* An action that changes one other part of the state is such an action,   *)
LEMMA SetsOneField ==
    ASSUME DvInv, NEW f, f \notin {"drag", "dragId", "rows"}, NEW x,
           dv' = [[dv EXCEPT ![f] = x] EXCEPT !.ops = @ - 1]
    PROVE  DvTakesNothing
<1> DEFINE t == [dv EXCEPT ![f] = x]
<1>1. {"drag", "dragId", "rows"} \subseteq DOMAIN t /\ t.drag = dv.drag /\ t.dragId = dv.dragId /\ t.rows = dv.rows
  BY FieldsOf
<1> HIDE DEF t
<1>2. dv' = [t EXCEPT !.ops = @ - 1]
  BY DEF t
<1>3. QED
  BY <1>1, <1>2, ActsTakesNothing

(* and so is one that saves a cell.                                        *)
LEMMA SavesTakesNothing ==
    \A n, d : /\ {"drag", "dragId", "rows"} \subseteq DOMAIN n /\ dv' = [[n EXCEPT !.data = d] EXCEPT !.ops = @ - 1]
              /\ n.drag \in {dv.drag, Closed} /\ n.dragId \in {dv.dragId, NoRow} /\ dv.rows \subseteq n.rows
              => DvTakesNothing
<1> SUFFICES ASSUME NEW n, NEW d, {"drag", "dragId", "rows"} \subseteq DOMAIN n,
                    dv' = [[n EXCEPT !.data = d] EXCEPT !.ops = @ - 1],
                    n.drag \in {dv.drag, Closed}, n.dragId \in {dv.dragId, NoRow}, dv.rows \subseteq n.rows
             PROVE  DvTakesNothing
  OBVIOUS
<1> DEFINE t == [n EXCEPT !.data = d]
<1>1. {"drag", "dragId", "rows"} \subseteq DOMAIN t /\ t.drag = n.drag /\ t.dragId = n.dragId /\ t.rows = n.rows
  OBVIOUS
<1> HIDE DEF t
<1>2. dv' = [t EXCEPT !.ops = @ - 1]
  BY DEF t
<1>3. QED
  BY <1>1, <1>2, ActsTakesNothing

(* Scrolling, paging, the controls and another view.                       *)
LEMMA ControlsTakeNothing ==
    DvInv /\ (Extend \/ LoadMoreBars \/ Controls \/ Header \/ YearGrid \/ SwitchTab) => DvTakesNothing
<1> SUFFICES ASSUME DvInv,
                    Extend \/ LoadMoreBars \/ Controls \/ Header \/ YearGrid \/ SwitchTab
             PROVE  DvTakesNothing
  OBVIOUS
<1>1. {"drag", "dragId", "rows"} \subseteq DOMAIN dv
  BY FieldsOf
<1>2. CASE Extend \/ LoadMoreBars \/ Controls
  BY <1>1, <1>2, ActsTakesNothing DEF Extend, LoadMoreBars, Controls, Acts
<1>3. CASE Header \/ YearGrid
  <2>1. CASE StepCalendar
    <3>1. PICK a : dv' = [[dv EXCEPT !.anchor = a] EXCEPT !.ops = @ - 1]
      BY <2>1 DEF StepCalendar, Acts
    <3>2. QED
      BY <3>1, SetsOneField
  <2>2. QED
    BY <1>1, <1>3, <2>1, ActsTakesNothing DEF Header, YearGrid, Acts
<1>4. CASE SwitchTab
  <2>1. PICK mode \in {"gantt", "calendar", "table"} : dv' = [Opened(mode, dv) EXCEPT !.ops = @ - 1]
    BY <1>4 DEF SwitchTab, Acts
  <2> DEFINE t == Opened(mode, dv)
  <2>2. {"drag", "dragId", "rows"} \subseteq DOMAIN t /\ t.drag = Closed /\ t.dragId = NoRow /\ t.rows = dv.rows
    BY DEF Opened
  <2> HIDE DEF t
  <2>3. dv' = [t EXCEPT !.ops = @ - 1]
    BY <2>1 DEF t
  <2>4. QED
    BY <2>2, <2>3, ActsTakesNothing
<1>5. QED
  BY <1>2, <1>3, <1>4

(* Adding, drawing, moving and picking.                                    *)
LEMMA WritesTakeNothing ==
    /\ DvInv /\ (AddBar \/ TrayDown \/ OpenDraft \/ Draft \/ DateCell) => DvTakesNothing
    /\ \A r, t : DvInv /\ Reschedule(r, t) => DvTakesNothing
    /\ DvInv /\ DropBar => DvTakesNothing
<1> SUFFICES ASSUME DvInv
             PROVE  /\ AddBar \/ TrayDown \/ OpenDraft \/ Draft \/ DateCell => DvTakesNothing
                    /\ \A r, t : Reschedule(r, t) => DvTakesNothing
                    /\ DropBar => DvTakesNothing
  OBVIOUS
<1>1. {"drag", "dragId", "rows"} \subseteq DOMAIN dv
  BY FieldsOf
<1>2. ASSUME AddBar PROVE DvTakesNothing
  <2>1. PICK n : dv' = [[dv EXCEPT !.rows = @ \cup {DvNew}, !.edit = DvNew, !.pages = n] EXCEPT !.ops = @ - 1]
    BY <1>2 DEF AddBar, Acts
  <2> DEFINE t == [dv EXCEPT !.rows = @ \cup {DvNew}, !.edit = DvNew, !.pages = n]
  <2>2. {"drag", "dragId", "rows"} \subseteq DOMAIN t /\ t.drag = dv.drag /\ t.dragId = dv.dragId /\ dv.rows \subseteq t.rows
    BY <1>1
  <2>3. dv' = [t EXCEPT !.ops = @ - 1]
    BY <2>1
  <2> HIDE DEF t
  <2>4. QED
    BY <2>2, <2>3, ActsTakesNothing
<1>3. ASSUME TrayDown PROVE DvTakesNothing
  <2>1. PICK d : dv' = [[dv EXCEPT !.data = d] EXCEPT !.ops = @ - 1]
    BY <1>3 DEF TrayDown, Saves, Acts
  <2>2. QED
    BY <1>1, <2>1, SavesTakesNothing
<1>4. ASSUME OpenDraft \/ Draft PROVE DvTakesNothing
  <2>1. ASSUME OpenDraft PROVE DvTakesNothing
    <3>1. PICK s : dv' = [[dv EXCEPT !.draft = s] EXCEPT !.ops = @ - 1]
      BY <2>1 DEF OpenDraft, Acts
    <3>2. QED
      BY <3>1, SetsOneField
  <2>2. ASSUME Draft PROVE DvTakesNothing
    <3>1. CASE dv' = [[dv EXCEPT !.draft = Null] EXCEPT !.ops = @ - 1]
      BY <3>1, SetsOneField
    <3>2. CASE Saves([dv EXCEPT !.draft = Null, !.rows = @ \cup {DvNew}], DvNew, dv.draft)
      <4> DEFINE t == [dv EXCEPT !.draft = Null, !.rows = @ \cup {DvNew}]
      <4>1. PICK d : dv' = [[t EXCEPT !.data = d] EXCEPT !.ops = @ - 1]
        BY <3>2 DEF Saves, Acts
      <4>2. {"drag", "dragId", "rows"} \subseteq DOMAIN t /\ t.drag = dv.drag /\ t.dragId = dv.dragId /\ dv.rows \subseteq t.rows
        BY <1>1
      <4> HIDE DEF t
      <4>3. QED
        BY <4>1, <4>2, SavesTakesNothing
    <3>3. QED
      BY <2>2, <3>1, <3>2 DEF Draft, Acts
  <2>3. QED
    BY <1>4, <2>1, <2>2
<1>5. ASSUME NEW c, Emit(c) PROVE DvTakesNothing
  <2> DEFINE t == [dv EXCEPT !.cell = c]
  <2>1. PICK d : dv' = [[t EXCEPT !.data = d] EXCEPT !.ops = @ - 1]
    BY <1>5 DEF Emit, Saves, Acts
  <2>2. {"drag", "dragId", "rows"} \subseteq DOMAIN t /\ t.drag = dv.drag /\ t.dragId = dv.dragId /\ t.rows = dv.rows
    BY <1>1
  <2> HIDE DEF t
  <2>3. QED
    BY <2>1, <2>2, SavesTakesNothing
<1>6. ASSUME DateCell PROVE DvTakesNothing
  <2>1. ASSUME OpenCell PROVE DvTakesNothing
    <3>1. PICK s : dv' = [[dv EXCEPT !.cell = s] EXCEPT !.ops = @ - 1]
      BY <2>1 DEF OpenCell, Acts
    <3>2. QED
      BY <3>1, SetsOneField
  <2>2. \A c, d : PickDay(c, d) \/ PickTime(c, d) \/ ToggleEnd(c) \/ ToggleTime(c) => DvTakesNothing
    <3> SUFFICES ASSUME NEW c, NEW d, PickDay(c, d) \/ PickTime(c, d) \/ ToggleEnd(c) \/ ToggleTime(c)
                 PROVE  DvTakesNothing
      BY DEF PickDay, PickTime, ToggleEnd, ToggleTime, Emit, Saves, Acts
    <3>1. \E e : Emit(e)
      BY DEF PickDay, PickTime, ToggleEnd, ToggleTime
    <3>2. QED
      BY <1>5, <3>1
  <2>3. QED
    BY <1>6, <2>1, <2>2 DEF DateCell
<1>7. ASSUME NEW r, NEW t, Reschedule(r, t) PROVE DvTakesNothing
  <2> DEFINE u == [dv EXCEPT !.dragId = NoRow]
  <2>1. PICK d : dv' = [[u EXCEPT !.data = d] EXCEPT !.ops = @ - 1]
    BY <1>7 DEF Reschedule, Saves, Acts
  <2>2. {"drag", "dragId", "rows"} \subseteq DOMAIN u /\ u.drag = dv.drag /\ u.dragId = NoRow /\ u.rows = dv.rows
    BY <1>1
  <2> HIDE DEF u
  <2>3. QED
    BY <2>1, <2>2, SavesTakesNothing
<1>8. ASSUME DropBar PROVE DvTakesNothing
  <2> DEFINE u == [dv EXCEPT !.drag = Closed]
  <2>1. {"drag", "dragId", "rows"} \subseteq DOMAIN u /\ u.drag = Closed /\ u.dragId = dv.dragId /\ u.rows = dv.rows
    BY <1>1
  <2>2. \/ dv' = [u EXCEPT !.ops = @ - 1]
        \/ \E d : dv' = [[u EXCEPT !.data = d] EXCEPT !.ops = @ - 1]
    BY <1>8 DEF DropBar, Saves, Acts
  <2> HIDE DEF u
  <2>3. QED
    BY <2>1, <2>2, ActsTakesNothing, SavesTakesNothing
<1>9. QED
  BY <1>2, <1>3, <1>4, <1>6, <1>7, <1>8 DEF Reschedule, Saves, Acts


(* What a bar and an event let go write.                                   *)
LEMMA DropBarWrites ==
    ASSUME DvInv, DropBar
    PROVE  /\ dv'.drag = Closed /\ dv'.dragId = dv.dragId /\ dv'.rows = dv.rows
           /\ dv'.data[dv.drag.row][Axis]
                 = IF dv.drag.delta = 0 THEN dv.data[dv.drag.row][Axis] ELSE Dropped
<1> DEFINE g == dv.drag
           up == [dv EXCEPT !.drag = Closed]
           d == [dv.data EXCEPT ![g.row][Axis] = Dropped]
<1>1. dv \in DvStates /\ g \in DvDrags /\ dv.data \in DvData
  BY DEF DvInv, DvSound, DvStates, DropBar
<1>2. g.row \in Range(DvRows) /\ Axis \in Range(DvFields)
  BY <1>1, AxisIsColumn DEF DvDrags
<1>3. d[g.row][Axis] = Dropped
  BY <1>1, <1>2 DEF DvData
<1>4. /\ g.delta = 0 => dv' = [up EXCEPT !.ops = @ - 1]
      /\ g.delta # 0 => dv' = [[up EXCEPT !.data = d] EXCEPT !.ops = @ - 1]
  <2>1. [up EXCEPT !.data[g.row][Axis] = Dropped] = [up EXCEPT !.data = d]
    <3>1. up.data = dv.data
      BY <1>1 DEF DvStates
    <3> HIDE DEF up
    <3>2. QED
      BY <3>1
  <2>2. QED
    BY <2>1 DEF DropBar, Acts, Saves
<1>5. /\ up.drag = Closed /\ up.dragId = dv.dragId /\ up.rows = dv.rows /\ up.data = dv.data
      /\ {"drag", "dragId", "rows", "data", "ops"} \subseteq DOMAIN up
  BY <1>1 DEF DvStates
<1> HIDE DEF up, d
<1>6. CASE g.delta = 0
  BY <1>4, <1>5, <1>6
<1>7. CASE g.delta # 0
  <2> DEFINE t == [up EXCEPT !.data = d]
  <2>1. t.drag = Closed /\ t.dragId = dv.dragId /\ t.rows = dv.rows /\ t.data = d
    BY <1>5
  <2>2. {"drag", "dragId", "rows", "data", "ops"} \subseteq DOMAIN t
    BY <1>5
  <2> HIDE DEF t
  <2>3. dv' = [t EXCEPT !.ops = @ - 1]
    BY <1>4, <1>7 DEF t
  <2>4. QED
    BY <1>3, <1>7, <2>1, <2>2, <2>3
<1>8. QED
  BY <1>6, <1>7

(* Nothing is dragged at first.                                            *)
LEMMA HeldInit == DvInit => DvHeld
BY DEF DvInit, Opened, DvHeld

(* While a bar is dragged no other action changes its row.                 *)
LEMMA HeldNext == DvInv /\ DvHeld /\ [DvNext]_dv => DvHeld'
<1> SUFFICES ASSUME DvInv, DvHeld, [DvNext]_dv PROVE DvHeld'
  OBVIOUS
<1>1. dv \in DvStates
  BY DEF DvInv, DvSound
<1>2. ASSUME DvTakesNothing, dv.drag = Closed PROVE DvHeld'
  BY <1>2 DEF DvTakesNothing, DvHeld
<1>3. CASE dv.mode = "gantt" /\ dv.drag = Closed /\ BeginDrag
  <2>1. PICK r \in Bars, mode \in {"move", "start", "end"} :
           dv' = [[dv EXCEPT !.drag = [row |-> r, mode |-> mode, span |-> SpanOf(r), delta |-> 0]]
                    EXCEPT !.ops = @ - 1]
    BY <1>3 DEF BeginDrag, Acts
  <2> DEFINE g == [row |-> r, mode |-> mode, span |-> SpanOf(r), delta |-> 0]
             t == [dv EXCEPT !.drag = g]
  <2>2. g.row = r /\ g.span = SpanOf(r)
    OBVIOUS
  <2>3. dv' = [t EXCEPT !.ops = @ - 1]
    BY <2>1
  <2> HIDE DEF g
  <2>4. /\ t.drag = g /\ t.mode = dv.mode /\ t.dragId = dv.dragId /\ t.rows = dv.rows
        /\ t.data = dv.data /\ t.picked = dv.picked
        /\ {"drag", "mode", "dragId", "rows", "data", "picked"} \subseteq DOMAIN t
    BY <1>1 DEF DvStates
  <2> HIDE DEF t
  <2>5. /\ dv'.drag = g /\ dv'.mode = dv.mode /\ dv'.dragId = dv.dragId /\ dv'.rows = dv.rows
        /\ dv'.data = dv.data /\ dv'.picked = dv.picked
    BY <2>3, <2>4
  <2>6. SpanOf(r)' = SpanOf(r)
    BY <2>5 DEF SpanOf, Axis
  <2>7. (dv.drag.span = SpanOf(dv.drag.row))'
    BY <2>2, <2>5, <2>6 DEF SpanOf, Axis
  <2>8. QED
    BY <1>3, <2>5, <2>7 DEF DvHeld
<1>4. CASE dv.mode = "gantt" /\ dv.drag # Closed /\ DragOn
  <2>1. PICK d : dv' = [[dv EXCEPT !.drag.delta = d] EXCEPT !.ops = @ - 1]
    BY <1>4 DEF DragOn, Acts
  <2> DEFINE g == [dv.drag EXCEPT !.delta = d]
             t == [dv EXCEPT !.drag = g]
  <2>2. g.row = dv.drag.row /\ g.span = dv.drag.span
    BY <1>1, <1>4 DEF DvStates, DvDrags
  <2>3. dv' = [t EXCEPT !.ops = @ - 1]
    BY <2>1
  <2> HIDE DEF g
  <2>4. /\ t.drag = g /\ t.mode = dv.mode /\ t.dragId = dv.dragId /\ t.rows = dv.rows
        /\ t.data = dv.data /\ t.picked = dv.picked
        /\ {"drag", "mode", "dragId", "rows", "data", "picked"} \subseteq DOMAIN t
    BY <1>1 DEF DvStates
  <2> HIDE DEF t
  <2>5. /\ dv'.drag = g /\ dv'.mode = dv.mode /\ dv'.dragId = dv.dragId /\ dv'.rows = dv.rows
        /\ dv'.data = dv.data /\ dv'.picked = dv.picked
    BY <2>3, <2>4
  <2>6. (dv.drag.span = SpanOf(dv.drag.row))'
    BY <1>4, <2>2, <2>5 DEF SpanOf, Axis, DvHeld
  <2>7. QED
    BY <1>4, <2>5, <2>6 DEF DvHeld
<1>5. CASE DropBar
  BY <1>5, DropBarWrites DEF DvHeld
<1>6. CASE dv.mode = "calendar" /\ DragEvent
  <2>1. PICK r \in UNION {EventsOn(d) : d \in DaysShown} :
           dv' = [[dv EXCEPT !.dragId = r] EXCEPT !.ops = @ - 1]
    BY <1>6 DEF DragEvent, Acts
  <2>2. r \in dv.rows /\ dv.drag = Closed
    BY <1>6 DEF EventsOn, DvHeld
  <2>3. dv'.drag = dv.drag /\ dv'.dragId = r /\ dv'.rows = dv.rows
    <3> DEFINE t == [dv EXCEPT !.dragId = r]
    <3>1. t.drag = dv.drag /\ t.dragId = r /\ t.rows = dv.rows /\ {"drag", "dragId", "rows"} \subseteq DOMAIN t
      BY <1>1 DEF DvStates
    <3>2. dv' = [t EXCEPT !.ops = @ - 1]
      BY <2>1
    <3> HIDE DEF t
    <3>3. QED
      BY <3>1, <3>2
  <2>4. QED
    BY <2>2, <2>3 DEF DvHeld
<1>7. CASE DropEvent /\ dv.drag = Closed
  <2>1. CASE dv' = [[dv EXCEPT !.dragId = NoRow] EXCEPT !.ops = @ - 1]
    <3> DEFINE t == [dv EXCEPT !.dragId = NoRow]
    <3>1. {"drag", "dragId", "rows"} \subseteq DOMAIN t /\ t.drag = dv.drag /\ t.dragId = NoRow /\ t.rows = dv.rows
      BY <1>1 DEF DvStates
    <3>2. dv' = [t EXCEPT !.ops = @ - 1]
      BY <2>1
    <3> HIDE DEF t
    <3>3. QED
      BY <1>2, <1>7, <3>1, <3>2, ActsTakesNothing
  <2>2. CASE \E r, t : Reschedule(r, t)
    BY <1>2, <1>7, <2>2, WritesTakeNothing DEF Reschedule, Saves, Acts
  <2>3. QED
    BY <1>7, <2>1, <2>2 DEF DropEvent, DropOnMonth, DropOnAllDay, DropOnHours, Acts
<1>8. CASE UNCHANGED dv
  BY <1>8 DEF DvHeld, SpanOf, Axis
<1>9. ASSUME dv.drag = Closed,
             Extend \/ LoadMoreBars \/ Controls \/ Header \/ YearGrid \/ SwitchTab
             \/ AddBar \/ TrayDown \/ OpenDraft \/ Draft \/ DateCell
      PROVE  DvHeld'
  BY <1>2, <1>9, ControlsTakeNothing, WritesTakeNothing
<1>10. CASE Gantt
  BY <1>3, <1>4, <1>5, <1>9, <1>10 DEF Gantt
<1>11. CASE Calendar
  <2>1. dv.drag = Closed
    BY <1>11 DEF Calendar, DvHeld
  <2>2. QED
    BY <1>6, <1>7, <1>9, <1>11, <2>1 DEF Calendar
<1>12. CASE DateCell \/ SwitchTab
  <2>1. dv.drag = Closed
    BY <1>12 DEF DateCell, SwitchTab, DvHeld
  <2>2. QED
    BY <1>9, <1>12, <2>1
<1>13. QED
  BY <1>8, <1>10, <1>11, <1>12 DEF DvNext

(* A date written and read again.                                          *)
LEMMA ReadAgain ==
    ASSUME NEW t \in Int
    PROVE  Step(Timed(t)) = t /\ Step(Dated(t)) = StartOfDay(t)
<1>1. DvDay \in Nat /\ DvDay > 0 /\ Null \notin Int
  BY DvAssumption
<1>2. t % DvDay \in Int /\ (t \div DvDay) * DvDay \in Int
  BY <1>1
<1>3. (t \div DvDay) * DvDay + (t % DvDay) = t
  BY <1>1, SMT
<1>4. Step(Timed(t)) = (t \div DvDay) * DvDay + (t % DvDay)
  BY <1>1, <1>2 DEF Step, Timed
<1>5. Step(Dated(t)) = StartOfDay(t)
  BY <1>2 DEF Step, Dated, StartOfDay
<1>6. QED
  BY <1>3, <1>4, <1>5

(* Whole days after the start of a day is the start of a day.              *)
LEMMA DaysLater ==
    ASSUME NEW t \in Int, NEW k \in Int, StartOfDay(t) = t
    PROVE  k * DvDay \in Int /\ StartOfDay(t + k * DvDay) = t + k * DvDay
<1>1. DvDay \in Nat /\ DvDay > 0
  BY DvAssumption
<1> DEFINE q == t \div DvDay
<1>2. q \in Int /\ t = q * DvDay
  BY <1>1 DEF StartOfDay
<1> HIDE DEF q
<1>3. k * DvDay \in Int /\ t + k * DvDay = (q + k) * DvDay
  BY <1>1, <1>2
<1>4. q + k \in Int /\ ((q + k) * DvDay) \div DvDay = q + k
  BY <1>1, <1>2, SMT
<1>5. QED
  BY <1>3, <1>4 DEF StartOfDay

(* What is read back from a range that was written from two instants.      *)
LEMMA SpanWritten ==
    ASSUME NEW a \in Int, NEW b \in Int, a <= b, NEW timed \in BOOLEAN, NEW keep \in BOOLEAN,
           keep \/ a = b, ~timed => StartOfDay(a) = a /\ StartOfDay(b) = b
    PROVE  LET F(x) == IF timed THEN Timed(x) ELSE Dated(x)
               v == [start |-> F(a), end |-> IF keep THEN F(b) ELSE Null]
           IN Span(v).start = a /\ Span(v).end = b /\ Span(v).allDay = ~timed
<1> DEFINE F(x) == IF timed THEN Timed(x) ELSE Dated(x)
           s == F(a)
           e == IF keep THEN F(b) ELSE Null
           v == [start |-> s, end |-> e]
<1>1. /\ s \in DvDates /\ Step(s) = a /\ (s.time = Null <=> ~timed)
      /\ F(b) \in DvDates /\ Step(F(b)) = b
  BY DaysInOrder, ReadAgain
<1>2. v \in DvValues
  BY <1>1 DEF DvValues
<1>3. v # Null
  BY <1>2, DvAssumption
<1> DEFINE g == IF v.end = Null THEN Step(v.start) ELSE Greatest({Step(v.start), Step(v.end)})
           w == v.start.time = Null
           h == v.end # Null
<1>4. Span(v) = [start |-> Step(v.start), end |-> g, allDay |-> w, hasEnd |-> h]
  BY <1>3 DEF Span
<1>5. v.start = s /\ v.end = e
  OBVIOUS
<1> HIDE DEF s, v
<1>6. g = b
  <2>1. CASE keep
    <3>1. e # Null /\ Step(e) = b
      BY <1>1, <2>1, DvAssumption
    <3>2. g = Greatest({a, b})
      BY <1>1, <1>5, <3>1
    <3>3. QED
      BY <3>2, GreatestOfTwo
  <2>2. CASE ~keep
    BY <1>1, <1>5, <2>2
  <2>3. QED
    BY <2>1, <2>2
<1>7. w = ~timed
  BY <1>1, <1>5
<1> HIDE DEF g, w, h, e, F
<1>8. Span(v).start = a /\ Span(v).end = b /\ Span(v).allDay = ~timed
  BY <1>1, <1>4, <1>5, <1>6, <1>7
<1>9. QED
  BY <1>8 DEF v, s, e, F

(* A bar let go is where it was drawn.                                     *)
LEMMA BarStays ==
    ASSUME DvInv, DvHeld, DropBar, dv.drag.span.allDay => dv.period # "hour",
           dv.drag.span.start + (IF dv.drag.mode = "end" THEN 0 ELSE dv.drag.delta * Snap)
              <= dv.drag.span.end + (IF dv.drag.mode = "start" THEN 0 ELSE dv.drag.delta * Snap)
    PROVE  LET g == dv.drag
               d == g.delta * Snap
               n == Span(dv'.data[g.row][Axis])
           IN /\ n.start = g.span.start + (IF g.mode = "end" THEN 0 ELSE d)
              /\ DrawnTo(n) = DrawnTo(g.span) + (IF g.mode = "start" THEN 0 ELSE d)
<1> DEFINE g == dv.drag
           d == g.delta * Snap
           a == g.span.start + (IF g.mode = "end" THEN 0 ELSE d)
           b == g.span.end + (IF g.mode = "start" THEN 0 ELSE d)
           n == Span(dv'.data[g.row][Axis])
<1>1. dv \in DvStates /\ g \in DvDrags /\ dv.drag # Closed
  BY DEF DvInv, DvSound, DvStates, DropBar
<1>2. /\ g.row \in Range(DvRows) /\ g.mode \in {"move", "start", "end"} /\ g.delta \in Int
      /\ g.span \in DvSpans
  BY <1>1 DEF DvDrags
<1>3. /\ g.span.start \in Int /\ g.span.end \in Int /\ g.span.allDay \in BOOLEAN /\ g.span.hasEnd \in BOOLEAN
      /\ g.span.start <= g.span.end
  BY <1>1, <1>2 DEF DvInv, DvSound, DvSpans
<1>4. g.span = SpanOf(g.row)
  BY <1>1 DEF DvHeld
<1>5. DvDay \in Nat /\ DvDay > 0 /\ d \in Int
  BY <1>2, SnapType, DvAssumption, SMTT(30)
<1>6. a <= b
  OBVIOUS
<1>7. CASE g.delta = 0
  <2>1. d = 0
    BY <1>7, SnapType
  <2>2. n = g.span
    BY <1>4, <1>7, DropBarWrites DEF SpanOf
  <2> HIDE DEF d, n
  <2>3. DrawnTo(g.span) \in Int
    BY <1>3, <1>5 DEF DrawnTo
  <2>4. n.start = a /\ DrawnTo(n) = DrawnTo(g.span) + (IF g.mode = "start" THEN 0 ELSE d)
    BY <1>3, <2>1, <2>2, <2>3
  <2>5. QED
    BY <2>4 DEF n, d
<1>8. CASE g.delta # 0
  <2> DEFINE to == ApplyDrag(g.mode, g.span.start, g.span.end, d)
             timed == dv.period = "hour" \/ ~g.span.allDay
             keep == g.mode = "end" \/ g.span.hasEnd \/ to.end # to.start
             F(t) == IF timed THEN Timed(t) ELSE Dated(t)
  <2>1. n = Span([start |-> F(to.start), end |-> IF keep THEN F(to.end) ELSE Null])
    BY <1>8, DropBarWrites DEF Dropped
  <2>2. ~g.span.allDay => timed
    OBVIOUS
  <2>3. timed => ~g.span.allDay
    OBVIOUS
  <2>4. g.span.allDay => /\ StartOfDay(g.span.start) = g.span.start
                         /\ StartOfDay(g.span.end) = g.span.end
    BY <1>2, <1>4, CellsHold
  <2>5. g.span.allDay => d = g.delta * DvDay
    BY DEF Snap
  <2> HIDE DEF timed, n
  <2>6. ~timed => StartOfDay(a) = a /\ StartOfDay(b) = b
    <3> SUFFICES ASSUME ~timed PROVE StartOfDay(a) = a /\ StartOfDay(b) = b
      OBVIOUS
    <3>1. d = g.delta * DvDay
      BY <2>2, <2>5
    <3>2. StartOfDay(g.span.start + d) = g.span.start + d /\ StartOfDay(g.span.end + d) = g.span.end + d
      BY <1>2, <1>3, <2>2, <2>4, <3>1, DaysLater, ZenonT(60)
    <3> HIDE DEF d
    <3>3. QED
      BY <1>3, <2>2, <2>4, <3>2
  <2> HIDE DEF d
  <2>7. a \in Int /\ b \in Int
    BY <1>3, <1>5
  <2>8. to.start = a /\ to.end = b
    <3>1. CASE g.mode = "move"
      BY <1>3, <3>1 DEF ApplyDrag
    <3>2. CASE g.mode = "start"
      <4>1. Least({g.span.start + d, g.span.end}) = g.span.start + d
        BY <1>3, <1>5, <1>6, <3>2, LeastOfTwo
      <4>2. QED
        BY <1>3, <3>2, <4>1 DEF ApplyDrag
    <3>3. CASE g.mode = "end"
      <4>1. Greatest({g.span.end + d, g.span.start}) = g.span.end + d
        BY <1>3, <1>5, <1>6, <3>3, GreatestOfTwo
      <4>2. QED
        BY <1>3, <3>3, <4>1 DEF ApplyDrag
    <3>4. QED
      BY <1>2, <3>1, <3>2, <3>3
  <2>9. n = Span([start |-> F(a), end |-> IF keep THEN F(b) ELSE Null])
    BY <2>1, <2>8
  <2>10. keep \in BOOLEAN /\ (keep \/ a = b) /\ timed \in BOOLEAN
    BY <2>8 DEF timed
  <2> HIDE DEF to, keep, a, b
  <2>11. n.start = a /\ n.end = b /\ n.allDay = ~timed
    BY <1>6, <2>6, <2>7, <2>9, <2>10, SpanWritten
  <2>12. DrawnTo(n) = IF g.span.allDay THEN b + DvDay ELSE b
    BY <1>3, <2>2, <2>3, <2>10, <2>11 DEF DrawnTo
  <2>13. DrawnTo(n) = DrawnTo(g.span) + (IF g.mode = "start" THEN 0 ELSE d)
    BY <1>3, <1>5, <2>12 DEF DrawnTo, b
  <2>14. QED
    BY <2>11, <2>13 DEF n, a, d
<1>9. QED
  BY <1>2, <1>7, <1>8

(* What moving an event writes.                                            *)
LEMMA RescheduleWrites ==
    ASSUME DvInv, NEW r \in Range(DvRows), NEW t, Reschedule(r, t)
    PROVE  /\ dv'.rows = dv.rows /\ dv'.picked = dv.picked /\ dv'.cal = dv.cal
           /\ LET s == SpanOf(r)
                  F(x) == IF s.allDay THEN Dated(x) ELSE Timed(x)
              IN dv'.data[r][Axis] = [start |-> F(t), end |-> IF s.hasEnd THEN F(t + s.end - s.start) ELSE Null]
<1> DEFINE s == SpanOf(r)
           F(x) == IF s.allDay THEN Dated(x) ELSE Timed(x)
           v == [start |-> F(t), end |-> IF s.hasEnd THEN F(t + s.end - s.start) ELSE Null]
           up == [dv EXCEPT !.dragId = NoRow]
           d == [dv.data EXCEPT ![r][Axis] = v]
           u == [up EXCEPT !.data = d]
<1>1. dv \in DvStates /\ dv.data \in DvData /\ Axis \in Range(DvFields)
  BY AxisIsColumn DEF DvInv, DvSound, DvStates
<1>2. dv' = [[up EXCEPT !.data[r][Axis] = v] EXCEPT !.ops = @ - 1]
  BY DEF Reschedule, Saves, Acts
<1> HIDE DEF v
<1>3. d[r][Axis] = v
  BY <1>1 DEF DvData
<1>4. /\ up.data = dv.data /\ up.rows = dv.rows /\ up.picked = dv.picked /\ up.cal = dv.cal
      /\ {"rows", "picked", "cal", "data", "ops"} \subseteq DOMAIN up
  BY <1>1 DEF DvStates
<1> HIDE DEF up
<1>5. dv' = [u EXCEPT !.ops = @ - 1]
  BY <1>2, <1>4
<1> HIDE DEF d
<1>6. /\ u.data = d /\ u.rows = dv.rows /\ u.picked = dv.picked /\ u.cal = dv.cal
      /\ {"rows", "picked", "cal", "data", "ops"} \subseteq DOMAIN u
  BY <1>4
<1> HIDE DEF u
<1>7. dv'.data = d /\ dv'.rows = dv.rows /\ dv'.picked = dv.picked /\ dv'.cal = dv.cal
  BY <1>5, <1>6
<1>8. dv'.data[r][Axis] = v
  BY <1>3, <1>7
<1>9. QED
  BY <1>7, <1>8 DEF v

(* The day of an instant.                                                  *)
LEMMA InItsDay ==
    ASSUME NEW d \in Int, NEW k \in Nat, k > 0, NEW t \in Int, d * k <= t, t < d * k + k
    PROVE  d * k \in Int /\ (d * k) \div k = d /\ t \div k = d
<1> DEFINE z == d * k
           q == t \div k
<1>1. z \in Int /\ z \div k = d
  BY SMTT(30)
<1>2. q \in Int /\ q * k <= t /\ t < q * k + k
  BY SMTT(30)
<1>3. q = d
  BY <1>2, SMTT(30)
<1>4. QED
  BY <1>1, <1>3

(* An event let go is on its day, as long as it was.                       *)
LEMMA LandsOnDay ==
    ASSUME DvInv, NEW r \in Range(DvRows), r \in dv.rows, HasSpan(r),
           NEW d \in Int, NEW t \in Int, d * DvDay <= t, t < d * DvDay + DvDay, Reschedule(r, t)
    PROVE  LET s == SpanOf(r)
               n == Span(dv'.data[r][Axis])
           IN /\ (r \in EventsOn(d))' /\ StartDay(n) = d
              /\ n.end - n.start = s.end - s.start /\ n.allDay = s.allDay
<1> DEFINE s == SpanOf(r)
           L == s.end - s.start
           F(x) == IF s.allDay THEN Dated(x) ELSE Timed(x)
           a == IF s.allDay THEN d * DvDay ELSE t
           n == Span(dv'.data[r][Axis])
<1>1. DvDay \in Nat /\ DvDay > 0
  BY DvAssumption
<1>2. s.start \in Int /\ s.end \in Int /\ s.allDay \in BOOLEAN /\ s.hasEnd \in BOOLEAN
  BY CellsHold DEF DvSpans
<1>3. L \in Int /\ 0 <= L /\ (~s.hasEnd => L = 0)
  BY <1>2, CellsHold
<1>4. d * DvDay \in Int /\ (d * DvDay) \div DvDay = d /\ t \div DvDay = d
  BY <1>1, InItsDay
<1>5. a \in Int /\ a \div DvDay = d
  BY <1>4
<1>6. s.allDay => StartOfDay(a) = a /\ StartOfDay(a + L) = a + L /\ (t + L) \div DvDay = (a + L) \div DvDay
  <2> SUFFICES ASSUME s.allDay
               PROVE  StartOfDay(a) = a /\ StartOfDay(a + L) = a + L /\ (t + L) \div DvDay = (a + L) \div DvDay
    OBVIOUS
  <2>1. StartOfDay(s.start) = s.start /\ StartOfDay(s.end) = s.end
    BY CellsHold
  <2> DEFINE p == s.start \div DvDay
             q == s.end \div DvDay
             k == q - p
  <2>2. p \in Int /\ q \in Int /\ s.start = p * DvDay /\ s.end = q * DvDay
    BY <1>1, <1>2, <2>1 DEF StartOfDay
  <2> HIDE DEF p, q
  <2>3. k \in Int /\ L = k * DvDay
    BY <1>1, <2>2
  <2>4. a = d * DvDay /\ StartOfDay(a) = a
    BY <1>4 DEF StartOfDay
  <2> HIDE DEF k, L, a
  <2>5. StartOfDay(a + L) = a + L
    BY <1>5, <2>3, <2>4, DaysLater
  <2>6. a + L = (d + k) * DvDay
    BY <1>1, <2>3, <2>4
  <2>7. d + k \in Int /\ (d + k) * DvDay <= t + L /\ t + L < (d + k) * DvDay + DvDay /\ t + L \in Int
    BY <1>1, <1>3, <2>3, <2>4, <2>6
  <2> DEFINE m == d + k
             y == t + L
  <2>8. m \in Int /\ y \in Int /\ m * DvDay <= y /\ y < m * DvDay + DvDay /\ a + L = m * DvDay
    BY <2>6, <2>7
  <2> HIDE DEF m, y
  <2>9. y \div DvDay = m /\ (m * DvDay) \div DvDay = m
    BY <1>1, <2>8, SMT
  <2>10. QED
    BY <2>4, <2>5, <2>8, <2>9 DEF y
<1> HIDE DEF L
<1>7. F(t) = F(a) /\ F(t + L) = F(a + L)
  BY <1>4, <1>5, <1>6 DEF Dated
<1>8. t + s.end - s.start = t + L
  BY <1>2 DEF L
<1>9. dv'.data[r][Axis] = [start |-> F(t), end |-> IF s.hasEnd THEN F(t + L) ELSE Null]
  BY <1>8, RescheduleWrites
<1> DEFINE timed == ~s.allDay
           keep == s.hasEnd
           G(x) == IF timed THEN Timed(x) ELSE Dated(x)
<1>10. n = Span([start |-> G(a), end |-> IF keep THEN G(a + L) ELSE Null])
  <2>1. G(a) = F(a) /\ G(a + L) = F(a + L)
    OBVIOUS
  <2> HIDE DEF F, G
  <2>2. QED
    BY <1>7, <1>9, <2>1
<1>11. /\ a + L \in Int /\ a <= a + L /\ timed \in BOOLEAN /\ keep \in BOOLEAN
       /\ (keep \/ a = a + L) /\ (~timed => StartOfDay(a) = a /\ StartOfDay(a + L) = a + L)
  BY <1>2, <1>3, <1>5, <1>6
<1>12. (~timed) = s.allDay
  BY <1>2
<1> HIDE DEF a, n, s, timed, keep
<1> DEFINE e == a + L
<1>13. n = Span([start |-> G(a), end |-> IF keep THEN G(e) ELSE Null]) /\ e \in Int /\ a <= e
        /\ (keep \/ a = e) /\ (~timed => StartOfDay(a) = a /\ StartOfDay(e) = e)
  BY <1>10, <1>11
<1> HIDE DEF e
<1>14. n.start = a /\ n.end = e /\ n.allDay = ~timed
  BY <1>5, <1>11, <1>13, SpanWritten
<1>15. n.start = a /\ n.end = a + L /\ n.allDay = s.allDay
  BY <1>12, <1>14 DEF e
<1>16. StartDay(n) = d /\ d <= EndDay(n)
  <2>1. (a + L) \div DvDay \in Int /\ a \div DvDay <= (a + L) \div DvDay
    BY <1>1, <1>5, <1>11, SMT
  <2>2. QED
    BY <1>5, <1>15, <2>1 DEF StartDay, EndDay
<1>17. n # NoSpan
  BY <1>5, <1>11, <1>15 DEF NoSpan
<1>18. n.end - n.start = L /\ n.allDay = s.allDay
  BY <1>2, <1>3, <1>5, <1>15
<1>19. SpanOf(r)' = n
  BY RescheduleWrites DEF SpanOf, Axis, n
<1>20. (r \in EventsOn(d))'
  <2>1. r \in dv'.rows
    BY RescheduleWrites
  <2>2. QED
    BY <1>16, <1>17, <1>19, <2>1 DEF EventsOn, Covers
<1>21. QED
  BY <1>16, <1>18, <1>20 DEF n, s, L

(* An event lands on the day it is dropped on, and keeps its length.       *)
LEMMA EventLands ==
    ASSUME DvInv, DvHeld, dv.dragId # NoRow, NEW d \in DaysShown, HasSpan(dv.dragId),
           DropOnMonth(dv.dragId, d) \/ DropOnAllDay(dv.dragId, d)
           \/ \E k \in 0..(DvDay - 1) : DropOnHours(dv.dragId, d, k)
    PROVE  LET r == dv.dragId
               s == SpanOf(r)
               n == Span(dv'.data[r][Axis])
           IN /\ r \in EventsOn(d)' /\ StartDay(n) = d
              /\ n.end - n.start = s.end - s.start /\ n.allDay = s.allDay
<1>1. PICK r : r = dv.dragId
  OBVIOUS
<1>2. DvDay \in Nat /\ DvDay > 0 /\ d \in Int
  BY ShownAreDays, DvAssumption
<1>3. d * DvDay \in Int
  BY <1>2
<1>4. r \in dv.rows /\ r \in Range(DvRows)
  BY <1>1 DEF DvHeld, DvInv, DvSound, DvStates
<1>5. SpanOf(r).start \in Int
  BY <1>4, CellsHold DEF DvSpans
<1>6. \E t \in Int : d * DvDay <= t /\ t < d * DvDay + DvDay /\ Reschedule(r, t)
  <2>1. CASE DropOnMonth(r, d)
    <3> DEFINE k == IF SpanOf(r).allDay THEN 0 ELSE SpanOf(r).start % DvDay
               t == d * DvDay + k
    <3>1. Reschedule(r, t)
      BY <2>1 DEF DropOnMonth
    <3>2. k \in Int /\ 0 <= k /\ k < DvDay
      BY <1>2, <1>5
    <3> HIDE DEF k
    <3>3. t \in Int /\ d * DvDay <= t /\ t < d * DvDay + DvDay
      BY <1>2, <1>3, <3>2
    <3> HIDE DEF t
    <3>4. QED
      BY <3>1, <3>3
  <2>2. CASE DropOnAllDay(r, d)
    <3> DEFINE t == d * DvDay
    <3>1. Reschedule(r, t)
      BY <2>2 DEF DropOnAllDay
    <3>2. t \in Int /\ d * DvDay <= t /\ t < d * DvDay + DvDay
      BY <1>2, <1>3
    <3> HIDE DEF t
    <3>3. QED
      BY <3>1, <3>2
  <2>3. ASSUME NEW k \in 0..(DvDay - 1), DropOnHours(r, d, k)
        PROVE  \E t \in Int : d * DvDay <= t /\ t < d * DvDay + DvDay /\ Reschedule(r, t)
    <3> DEFINE t == d * DvDay + k
    <3>1. Reschedule(r, t)
      BY <2>3 DEF DropOnHours
    <3>2. t \in Int /\ d * DvDay <= t /\ t < d * DvDay + DvDay
      BY <1>2, <1>3
    <3> HIDE DEF t
    <3>3. QED
      BY <3>1, <3>2
  <2>4. QED
    BY <1>1, <2>1, <2>2, <2>3 DEF DropOnMonth, DropOnAllDay, DropOnHours, Reschedule, Saves, Acts
<1>7. PICK t \in Int : d * DvDay <= t /\ t < d * DvDay + DvDay /\ Reschedule(r, t)
  BY <1>6
<1>8. LET s == SpanOf(r)
          n == Span(dv'.data[r][Axis])
      IN /\ (r \in EventsOn(d))' /\ StartDay(n) = d
         /\ n.end - n.start = s.end - s.start /\ n.allDay = s.allDay
  BY <1>1, <1>2, <1>4, <1>7, LandsOnDay
<1>9. QED
  BY <1>1, <1>8

(* What the invariant is for.                                              *)
LEMMA DvInvSuffices ==
    /\ DvInv => RangesInOrder /\ WindowHoldsBars
    /\ DvInv /\ DvHeld =>
         (dv.drag # Closed =>
            LET g == dv.drag
                d == g.delta * Snap
                left == g.span.start + IF g.mode = "end" THEN 0 ELSE d
                right == DrawnTo(g.span) + IF g.mode = "start" THEN 0 ELSE d
            IN (DropBar /\ (g.span.allDay => dv.period # "hour")
                  /\ g.span.start + (IF g.mode = "end" THEN 0 ELSE d)
                        <= g.span.end + (IF g.mode = "start" THEN 0 ELSE d))
                 => /\ Span(dv'.data[g.row][Axis]).start = left
                    /\ DrawnTo(Span(dv'.data[g.row][Axis])) = right)
    /\ DvInv /\ DvHeld =>
         (dv.dragId # NoRow =>
            \A d \in DaysShown :
               (HasSpan(dv.dragId)
                /\ (DropOnMonth(dv.dragId, d) \/ DropOnAllDay(dv.dragId, d)
                    \/ \E k \in 0..(DvDay - 1) : DropOnHours(dv.dragId, d, k)))
               => LET r == dv.dragId
                      s == SpanOf(r)
                      n == Span(dv'.data[r][Axis])
                  IN /\ r \in EventsOn(d)' /\ StartDay(n) = d
                     /\ n.end - n.start = s.end - s.start /\ n.allDay = s.allDay)
<1>1. DvInv => RangesInOrder
  BY DEF DvInv, DvSound, DvStates, RangesInOrder, Proper
<1>2. QED
  BY <1>1, DvInvHoldsBars, BarStays, EventLands

(* DatesInvariant: in every reachable state of the dates the invariant     *)
(* holds, and what the pointer holds is what was pressed.                  *)
THEOREM DatesInvariant == DvSpec => [](DvInv /\ DvHeld)
<1>1. DvInit => DvInv /\ DvHeld
  BY DvInitInv, HeldInit
<1>2. DvInv /\ DvHeld /\ [DvNext]_dv => DvInv' /\ DvHeld'
  BY DvNextInv, HeldNext
<1>3. QED
  BY <1>1, <1>2, PTL DEF DvSpec


-----------------------------------------------------------------------------
(* Sites: the lists of the studio and the canvas.                          *)


IsPages(p) == p \in Seq(Range(p)) /\ p # <<>>

(* The latest build is the first of the list.                              *)
IsBuild(b) == b \in [version : {b.version}, env : {b.env}, status : {b.status}, active : {b.active},
                     written : Nat]
IsBuilds(l) ==
    /\ l \in Seq(Range(l))
    /\ \A i \in DOMAIN l : IsBuild(l[i]) /\ l[i].version = Len(l) + 1 - i

PageCalls == {"createPage", "updatePage", "importDesign"}
BuildCalls == {"buildSite", "promote"}
IsCall(m) ==
    /\ m \in [nth : {m.nth}, do : {m.do}, on : Lists, with : {m.with}, step : {m.step}]
    /\ m.on = "pages" => m.do \in PageCalls
    /\ m.on = "builds" => m.do \in BuildCalls

SsShape(s) ==
    /\ s \in [at : {s.at}, cache : {s.cache}, fetch : {s.fetch}, net : {s.net}, sent : {s.sent},
              last : {s.last}, active : {s.active}, canvas : {s.canvas}, jobs : {s.jobs},
              early : BOOLEAN, ops : {s.ops}]
    /\ s.at = [q \in Lists |-> s.at[q]] /\ s.fetch = [q \in Lists |-> s.fetch[q]]
    /\ s.cache = [q \in DOMAIN s.cache |-> s.cache[q]] /\ DOMAIN s.cache \subseteq Lists
    /\ \A m \in s.net : IsCall(m)

ListsThere(s) ==
    /\ IsPages(s.at["pages"]) /\ IsBuilds(s.at["builds"])
    /\ InCache(s, "pages") => IsPages(s.cache["pages"])
    /\ s.fetch["pages"].step = "answered" => IsPages(s.fetch["pages"].list)

(* A list of builds is behind another when the workers wrote since, and    *)
(* nothing but what follows from their writes in an environment differs.   *)
Overtaken(l, b, i) ==
    \E j \in DOMAIN l : l[j].env = l[i].env /\ l[j].written < b[j].written
Behind(l, b) ==
    /\ DOMAIN l = DOMAIN b
    /\ \A i \in DOMAIN l :
          /\ l[i].env = b[i].env
          /\ l[i].written \in Nat /\ b[i].written \in Nat /\ l[i].written <= b[i].written
          /\ l[i] = b[i] \/ Overtaken(l, b, i)

(* What was fetched is what the server has; or, of builds, it has one to   *)
(* wait for, or is behind.                                                 *)
Fresh(s, q, l) == \/ l = s.at[q]
                  \/ q = "builds" /\ (Unfinished(l) \/ Behind(l, s.at[q]))

(* A list that no answer is going to invalidate is true, when it is there. *)
ListTrue(s, q) ==
    (\A m \in s.net : m.on = q => m.step # "done") =>
        /\ s.fetch[q].step = "none" => InCache(s, q) /\ Fresh(s, q, s.cache[q])
        /\ s.fetch[q].step = "answered" => Fresh(s, q, s.fetch[q].list)

SsData(s) == SsShape(s) /\ ListsThere(s) /\ (~s.early => \A q \in Lists : ListTrue(s, q))

PageRenders(s) == InCache(s, "site") /\ InCache(s, "pages")

(* The canvas is the one of the page as the list has it.                   *)
CanvasTrue(s) ==
    IF PageRenders(s)
    THEN /\ s.canvas \in [of : {CanvasOf(s)}, listed : {s.canvas.listed}, ready : BOOLEAN, base : {s.canvas.base}]
         /\ s.canvas.ready => s.canvas.base = ActivePage(s).src
    ELSE s.canvas = Null

SsSound(s) == SsData(s) /\ CanvasTrue(s)
SsInv == SsSound(ss)


(* What a canvas is of has the active page in it.                          *)
LEMMA CanvasOfPageThere ==
    ASSUME NEW s, NEW t, CanvasOf(s) = CanvasOf(t)
    PROVE  ActivePage(s) = ActivePage(t)
BY DEF CanvasOf

(* Nor does what a canvas is of change with anything but these.            *)
LEMMA CanvasStays ==
    ASSUME NEW s, NEW t, CanvasTrue(s), t.cache = s.cache, t.active = s.active, t.canvas = s.canvas
    PROVE  CanvasTrue(t)
<1>1. Pages(t) = Pages(s) /\ Bindings(t) = Bindings(s) /\ (PageRenders(t) <=> PageRenders(s))
  BY DEF Pages, Bindings, PageRenders, InCache
<1>2. ActivePage(t) = ActivePage(s)
  BY <1>1 DEF ActivePage
<1>3. CanvasOf(t) = CanvasOf(s)
  BY <1>1, <1>2 DEF CanvasOf
<1>4. QED
  BY <1>1, <1>2, <1>3 DEF CanvasTrue

(* Only the canvas and what is counted differ.                             *)
LEMMA DataStays ==
    ASSUME NEW s, NEW t, SsData(s), SsShape(t), t.at = s.at, t.cache = s.cache, t.fetch = s.fetch,
           t.net = s.net, t.early = s.early
    PROVE  SsData(t)
BY DEF SsData, ListsThere, ListTrue, Fresh, InCache

(* The page is rendered after every change.                                *)
LEMMA CanvasFollows ==
    ASSUME NEW s, NEW t, CanvasTrue(s), SsData(t), t.canvas = s.canvas, PageRenders(s) => PageRenders(t)
    PROVE  SsSound(RenderedStudio(t))
<1>1. PageRenders(t) => Pages(t) # <<>>
  BY DEF SsData, ListsThere, IsPages, PageRenders, Pages
<1>2. CASE ~PageRenders(t)
  <2>1. RenderedStudio(t) = t
    BY <1>2 DEF RenderedStudio, PageRenders, Pages
  <2>2. CanvasTrue(t)
    BY <1>2 DEF CanvasTrue
  <2>3. QED
    BY <2>1, <2>2 DEF SsSound
<1>3. CASE PageRenders(t) /\ t.canvas # Null /\ t.canvas.of = CanvasOf(t) /\ t.canvas.listed
  <2>1. RenderedStudio(t) = t
    BY <1>1, <1>3 DEF RenderedStudio, PageRenders
  <2>2. PageRenders(s) /\ CanvasOf(s) = CanvasOf(t)
    BY <1>3 DEF CanvasTrue
  <2>3. ActivePage(s) = ActivePage(t)
    BY <2>2, CanvasOfPageThere
  <2>4. CanvasTrue(t)
    BY <1>3, <2>2, <2>3 DEF CanvasTrue
  <2>5. QED
    BY <2>1, <2>4 DEF SsSound
<1>4. CASE PageRenders(t) /\ ~(t.canvas # Null /\ t.canvas.of = CanvasOf(t) /\ t.canvas.listed)
  <2> DEFINE c == [of |-> CanvasOf(t), listed |-> InCache(t, "bindings"), ready |-> FALSE, base |-> Null]
             u == [t EXCEPT !.canvas = c]
  <2>1. RenderedStudio(t) = u
    BY <1>1, <1>4 DEF RenderedStudio, PageRenders
  <2>2. c.of = CanvasOf(t) /\ c.ready = FALSE
        /\ c \in [of : {CanvasOf(t)}, listed : {c.listed}, ready : BOOLEAN, base : {c.base}]
    OBVIOUS
  <2> HIDE DEF c
  <2>3. /\ u.at = t.at /\ u.cache = t.cache /\ u.fetch = t.fetch /\ u.net = t.net /\ u.early = t.early
        /\ u.active = t.active /\ u.canvas = c
    BY DEF SsData, SsShape
  <2>4. SsShape(u)
    BY <2>3 DEF SsData, SsShape
  <2> HIDE DEF u
  <2>5. SsData(u)
    BY <2>3, <2>4, DataStays
  <2>6. CanvasOf(u) = CanvasOf(t) /\ PageRenders(u)
    <3>1. Pages(u) = Pages(t) /\ Bindings(u) = Bindings(t)
      BY <2>3 DEF Pages, Bindings, InCache
    <3>2. ActivePage(u) = ActivePage(t)
      BY <2>3, <3>1 DEF ActivePage
    <3>3. QED
      BY <1>4, <2>3, <3>1, <3>2 DEF CanvasOf, PageRenders, InCache
  <2>7. CanvasTrue(u)
    BY <2>2, <2>3, <2>6 DEF CanvasTrue
  <2>8. QED
    BY <2>1, <2>5, <2>7 DEF SsSound
<1>5. QED
  BY <1>2, <1>3, <1>4

(* An action of the user changes what it changes, and is counted.          *)
LEMMA DidSound ==
    ASSUME SsInv, NEW t, SsData(t), t.canvas = ss.canvas, PageRenders(ss) => PageRenders(t),
           ss' = RenderedStudio([t EXCEPT !.ops = @ - 1])
    PROVE  SsInv'
<1> DEFINE u == [t EXCEPT !.ops = @ - 1]
<1>1. /\ u.at = t.at /\ u.cache = t.cache /\ u.fetch = t.fetch /\ u.net = t.net /\ u.early = t.early
      /\ u.active = t.active /\ u.canvas = t.canvas
  BY DEF SsData, SsShape
<1>2. SsShape(u)
  BY <1>1 DEF SsData, SsShape
<1>3. ss' = RenderedStudio(u)
  OBVIOUS
<1> HIDE DEF u
<1>4. SsData(u) /\ (PageRenders(t) <=> PageRenders(u))
  BY <1>1, <1>2, DataStays DEF PageRenders, InCache
<1>5. SsSound(RenderedStudio(u))
  BY <1>1, <1>4, CanvasFollows DEF SsInv, SsSound
<1>6. QED
  BY <1>3, <1>5 DEF SsInv

(* A list that is asked for will be true.                                  *)
LEMMA AskedSound ==
    ASSUME NEW s, SsShape(s), ListsThere(s), NEW q \in Lists,
           ~s.early => \A l \in Lists \ {q} : ListTrue(s, l)
    PROVE  /\ SsData(AskFor(s, q)) /\ AskFor(s, q).canvas = s.canvas
           /\ AskFor(s, q).cache = s.cache /\ AskFor(s, q).active = s.active
<1> DEFINE f == [s.fetch EXCEPT ![q] = NoAnswer("asked")]
           t == [s EXCEPT !.fetch = f]
<1>1. /\ f[q].step = "asked" /\ f = [l \in Lists |-> f[l]]
      /\ \A l \in Lists \ {q} : f[l] = s.fetch[l]
  BY DEF SsShape, NoAnswer
<1>2. AskFor(s, q) = t
  BY DEF AskFor, SsShape
<1> HIDE DEF f
<1>3. /\ t.at = s.at /\ t.cache = s.cache /\ t.fetch = f /\ t.net = s.net /\ t.early = s.early
      /\ t.active = s.active /\ t.canvas = s.canvas
  BY DEF SsShape
<1>4. SsShape(t)
  BY <1>1, <1>3 DEF SsShape
<1> HIDE DEF t
<1>5. ListsThere(t)
  BY <1>1, <1>3 DEF ListsThere, InCache, Lists
<1>6. ASSUME ~t.early, NEW l \in Lists PROVE ListTrue(t, l)
  <2>1. CASE l = q
    BY <1>1, <1>3, <2>1 DEF ListTrue
  <2>2. CASE l # q
    BY <1>1, <1>3, <1>6, <2>2 DEF ListTrue, Fresh, InCache
  <2>3. QED
    BY <2>1, <2>2
<1>7. QED
  BY <1>2, <1>3, <1>4, <1>5, <1>6 DEF SsData

(* A request that is sent changes no list yet.                             *)
LEMMA CallSound ==
    ASSUME SsInv, NEW l, NEW m, IsCall(m), m.step = "sent",
           ss' = RenderedStudio([[ss EXCEPT !.sent = @ + 1, !.last = l, !.net = @ \cup {m}] EXCEPT !.ops = @ - 1])
    PROVE  SsInv'
<1> DEFINE t == [ss EXCEPT !.sent = @ + 1, !.last = l, !.net = @ \cup {m}]
<1>1. /\ t.at = ss.at /\ t.cache = ss.cache /\ t.fetch = ss.fetch /\ t.net = ss.net \cup {m}
      /\ t.early = ss.early /\ t.active = ss.active /\ t.canvas = ss.canvas
  BY DEF SsInv, SsSound, SsData, SsShape
<1>2. SsShape(t)
  BY <1>1 DEF SsInv, SsSound, SsData, SsShape
<1>3. ss' = RenderedStudio([t EXCEPT !.ops = @ - 1])
  OBVIOUS
<1> HIDE DEF t
<1>4. SsData(t) /\ (PageRenders(ss) <=> PageRenders(t))
  BY <1>1, <1>2 DEF SsInv, SsSound, SsData, ListsThere, ListTrue, Fresh, InCache, PageRenders
<1>5. QED
  BY <1>1, <1>3, <1>4, DidSound

(* What the user does.                                                     *)
LEMMA SiteUserSound == SsInv /\ SiteUser => SsInv'
<1> SUFFICES ASSUME SsInv, SiteUser PROVE SsInv'
  OBVIOUS
<1> DEFINE Msg(do, on, w) == [nth |-> ss.sent + 1, do |-> do, on |-> on, with |-> w, step |-> "sent"]
           After1(do, on, w) ==
              [ss EXCEPT !.sent = @ + 1, !.last[do] = ss.sent + 1, !.net = @ \cup {Msg(do, on, w)}]
<1>1. \A do, on, w : /\ on \in Lists /\ (on = "pages" => do \in PageCalls)
                     /\ (on = "builds" => do \in BuildCalls)
                     /\ ss' = RenderedStudio([After1(do, on, w) EXCEPT !.ops = @ - 1])
                     => SsInv'
  <2> SUFFICES ASSUME NEW do, NEW on \in Lists, NEW w, on = "pages" => do \in PageCalls,
                      on = "builds" => do \in BuildCalls,
                      ss' = RenderedStudio([After1(do, on, w) EXCEPT !.ops = @ - 1])
               PROVE  SsInv'
    OBVIOUS
  <2> DEFINE m == Msg(do, on, w)
             l == [ss.last EXCEPT ![do] = ss.sent + 1]
  <2>1. IsCall(m) /\ m.step = "sent"
    BY DEF IsCall
  <2>2. After1(do, on, w) = [ss EXCEPT !.sent = @ + 1, !.last = l, !.net = @ \cup {m}]
    BY DEF SsInv, SsSound, SsData, SsShape
  <2> HIDE DEF m, l
  <2>3. QED
    BY <2>1, <2>2, CallSound
<1>2. {"site", "pages", "bindings", "domains", "builds"} = Lists
      /\ PageCalls = {"createPage", "updatePage", "importDesign"} /\ BuildCalls = {"buildSite", "promote"}
  BY DEF Lists, PageCalls, BuildCalls
<1>3. ASSUME Publish \/ RenameSite PROVE SsInv'
  <2> PICK do, w : ss' = RenderedStudio([After1(do, "site", w) EXCEPT !.ops = @ - 1])
    BY <1>3 DEF Publish, RenameSite, Call, Did
  <2> HIDE DEF After1
  <2> QED
    BY <1>1, <1>2
<1>4. ASSUME CreatePage \/ EditPage \/ ImportDesign \/ SaveProject PROVE SsInv'
  <2> PICK do, w : /\ do \in PageCalls
                   /\ ss' = RenderedStudio([After1(do, "pages", w) EXCEPT !.ops = @ - 1])
    BY <1>2, <1>4 DEF CreatePage, EditPage, ImportDesign, SaveProject, UpdatePage, Call, Did
  <2> HIDE DEF After1
  <2> QED
    BY <1>1, <1>2
<1>5. ASSUME BuildSite \/ Promote PROVE SsInv'
  <2> PICK do, w : /\ do \in BuildCalls
                   /\ ss' = RenderedStudio([After1(do, "builds", w) EXCEPT !.ops = @ - 1])
    <3>1. CASE BuildSite
      BY <1>2, <3>1 DEF BuildSite, Call, Did
    <3>2. CASE Promote
      BY <1>2, <3>2 DEF Promote, Call, Did
    <3> QED
      BY <1>5, <3>1, <3>2
  <2> HIDE DEF After1
  <2> QED
    BY <1>1, <1>2
<1>6. ASSUME CreateDomain \/ EditDomain PROVE SsInv'
  <2> PICK do, w : ss' = RenderedStudio([After1(do, "domains", w) EXCEPT !.ops = @ - 1])
    BY <1>6 DEF CreateDomain, EditDomain, Call, Did
  <2> HIDE DEF After1
  <2> QED
    BY <1>1, <1>2
<1>7. ASSUME CreateBinding \/ DeleteBinding PROVE SsInv'
  <2> PICK do, w : ss' = RenderedStudio([After1(do, "bindings", w) EXCEPT !.ops = @ - 1])
    BY <1>7 DEF CreateBinding, DeleteBinding, Call, Did
  <2> HIDE DEF After1
  <2> QED
    BY <1>1, <1>2
<1>8. ASSUME ChoosePage PROVE SsInv'
  <2> PICK p : ss' = RenderedStudio([[ss EXCEPT !.active = p] EXCEPT !.ops = @ - 1])
    BY <1>8 DEF ChoosePage, Did
  <2> DEFINE t == [ss EXCEPT !.active = p]
  <2>1. /\ t.at = ss.at /\ t.cache = ss.cache /\ t.fetch = ss.fetch /\ t.net = ss.net
        /\ t.early = ss.early /\ t.canvas = ss.canvas
    BY DEF SsInv, SsSound, SsData, SsShape
  <2>2. SsShape(t)
    BY <2>1 DEF SsInv, SsSound, SsData, SsShape
  <2>3. ss' = RenderedStudio([t EXCEPT !.ops = @ - 1])
    OBVIOUS
  <2> HIDE DEF t
  <2>4. SsData(t) /\ (PageRenders(ss) <=> PageRenders(t))
    BY <2>1, <2>2, DataStays DEF SsInv, SsSound, PageRenders, InCache
  <2>5. QED
    BY <2>1, <2>3, <2>4, DidSound
<1>9. ASSUME RefetchList PROVE SsInv'
  <2> PICK q \in Lists : ss' = RenderedStudio([AskFor(ss, q) EXCEPT !.ops = @ - 1])
    BY <1>9 DEF RefetchList, Did
  <2>1. /\ SsData(AskFor(ss, q)) /\ AskFor(ss, q).canvas = ss.canvas /\ AskFor(ss, q).cache = ss.cache
    BY AskedSound DEF SsInv, SsSound, SsData
  <2>2. QED
    BY <2>1, DidSound DEF PageRenders, InCache
<1>10. QED
  BY <1>3, <1>4, <1>5, <1>6, <1>7, <1>8, <1>9 DEF SiteUser

(* A step that leaves the cache and the page chosen alone renders nothing. *)
LEMMA QuietStep ==
    ASSUME SsInv, SsData(ss'), ss'.cache = ss.cache, ss'.active = ss.active, ss'.canvas = ss.canvas
    PROVE  SsInv'
<1> DEFINE t == ss'
<1>1. CanvasTrue(ss)
  BY DEF SsInv, SsSound
<1>2. CanvasTrue(t)
  BY <1>1, CanvasStays
<1>3. QED
  BY <1>2 DEF SsInv, SsSound

(* The editor loads the source of the page it is of.                       *)
LEMMA CanvasMountsSound == SsInv /\ CanvasMounts => SsInv'
<1> SUFFICES ASSUME SsInv, CanvasMounts PROVE SsInv'
  OBVIOUS
<1> DEFINE c == [of |-> ss.canvas.of, listed |-> ss.canvas.listed, ready |-> TRUE, base |-> ActivePage(ss).src]
           t == [ss EXCEPT !.canvas = c]
<1>1. PageRenders(ss) /\ ss.canvas \in [of : {CanvasOf(ss)}, listed : {ss.canvas.listed}, ready : BOOLEAN, base : {ss.canvas.base}]
  BY DEF SsInv, SsSound, CanvasTrue, CanvasMounts
<1>2. ss' = t
  <2>1. [[ss.canvas EXCEPT !.ready = TRUE] EXCEPT !.base = ActivePage(ss).src] = c
    <3> DEFINE k == [ss.canvas EXCEPT !.ready = TRUE]
    <3>1. k \in [of : {ss.canvas.of}, listed : {ss.canvas.listed}, ready : {TRUE}, base : {ss.canvas.base}]
      BY <1>1
    <3> HIDE DEF k
    <3> DEFINE j == [k EXCEPT !.base = ActivePage(ss).src]
    <3>2. j \in [of : {ss.canvas.of}, listed : {ss.canvas.listed}, ready : {TRUE}, base : {ActivePage(ss).src}]
      BY <3>1
    <3> HIDE DEF j
    <3>3. j = c
      BY <3>2
    <3>4. QED
      BY <3>3 DEF j, k
  <2>2. ss' = [ss EXCEPT !.canvas = [[ss.canvas EXCEPT !.ready = TRUE] EXCEPT !.base = ActivePage(ss).src]]
    BY DEF CanvasMounts, SsInv, SsSound, SsData, SsShape
  <2> HIDE DEF c
  <2>3. QED
    BY <2>1, <2>2
<1>3. /\ c \in [of : {CanvasOf(ss)}, listed : {c.listed}, ready : BOOLEAN, base : {c.base}]
      /\ c.base = ActivePage(ss).src
  BY <1>1
<1> HIDE DEF c
<1>4. /\ t.at = ss.at /\ t.cache = ss.cache /\ t.fetch = ss.fetch /\ t.net = ss.net
      /\ t.early = ss.early /\ t.active = ss.active /\ t.canvas = c
  BY DEF SsInv, SsSound, SsData, SsShape
<1>5. SsShape(t)
  BY <1>4 DEF SsInv, SsSound, SsData, SsShape
<1> HIDE DEF t
<1>6. SsData(t)
  BY <1>4, <1>5, DataStays DEF SsInv, SsSound
<1>7. CanvasOf(t) = CanvasOf(ss) /\ ActivePage(t) = ActivePage(ss) /\ PageRenders(t)
  <2>1. Pages(t) = Pages(ss) /\ Bindings(t) = Bindings(ss)
    BY <1>4 DEF Pages, Bindings, InCache
  <2>2. ActivePage(t) = ActivePage(ss)
    BY <1>4, <2>1 DEF ActivePage
  <2>3. QED
    BY <1>1, <1>4, <2>1, <2>2 DEF CanvasOf, PageRenders, InCache
<1>8. CanvasTrue(t)
  BY <1>3, <1>4, <1>7 DEF CanvasTrue
<1>9. QED
  BY <1>2, <1>6, <1>8 DEF SsInv, SsSound

(* The list of builds is asked for until they are finished.                *)
LEMMA PollBuildsSound == SsInv /\ PollBuilds => SsInv'
<1> SUFFICES ASSUME SsInv, PollBuilds PROVE SsInv'
  OBVIOUS
<1>1. ss' = AskFor(ss, "builds") /\ "builds" \in Lists
  BY DEF PollBuilds, Lists
<1>2. /\ SsData(AskFor(ss, "builds")) /\ AskFor(ss, "builds").canvas = ss.canvas
      /\ AskFor(ss, "builds").cache = ss.cache /\ AskFor(ss, "builds").active = ss.active
  BY <1>1, AskedSound DEF SsInv, SsSound, SsData
<1>3. QED
  BY <1>1, <1>2, QuietStep

(* The server answers with what it has.                                    *)
LEMMA ServeListSound == \A q \in Lists : SsInv /\ ServeList(q) => SsInv'
<1> SUFFICES ASSUME SsInv, NEW q \in Lists, ServeList(q) PROVE SsInv'
  OBVIOUS
<1> DEFINE f == [ss.fetch EXCEPT ![q] = [step |-> "answered", list |-> ss.at[q]]]
           t == [ss EXCEPT !.fetch = f]
<1>1. /\ f[q].step = "answered" /\ f[q].list = ss.at[q] /\ f = [l \in Lists |-> f[l]]
      /\ \A l \in Lists \ {q} : f[l] = ss.fetch[l]
  BY DEF SsInv, SsSound, SsData, SsShape
<1>2. ss' = t
  BY DEF ServeList, SsInv, SsSound, SsData, SsShape
<1> HIDE DEF f
<1>3. /\ t.at = ss.at /\ t.cache = ss.cache /\ t.fetch = f /\ t.net = ss.net
      /\ t.early = ss.early /\ t.active = ss.active /\ t.canvas = ss.canvas
  BY DEF SsInv, SsSound, SsData, SsShape
<1>4. SsShape(t)
  BY <1>1, <1>3 DEF SsInv, SsSound, SsData, SsShape
<1> HIDE DEF t
<1>5. ListsThere(t)
  BY <1>1, <1>3 DEF SsInv, SsSound, SsData, ListsThere, InCache, Lists
<1>6. ASSUME ~t.early, NEW l \in Lists PROVE ListTrue(t, l)
  <2>1. CASE l = q
    BY <1>1, <1>3, <2>1 DEF ListTrue, Fresh
  <2>2. CASE l # q
    BY <1>1, <1>3, <1>6, <2>2 DEF SsInv, SsSound, SsData, ListTrue, Fresh, InCache
  <2>3. QED
    BY <2>1, <2>2
<1>7. SsData(t)
  BY <1>4, <1>5, <1>6 DEF SsData
<1>8. QED
  BY <1>2, <1>3, <1>7, QuietStep

(* An answer is kept, and the page is rendered with it.                    *)
LEMMA ListArrivesSound == \A q \in Lists : SsInv /\ ListArrives(q) => SsInv'
<1> SUFFICES ASSUME SsInv, NEW q \in Lists, ListArrives(q) PROVE SsInv'
  OBVIOUS
<1> DEFINE f == [ss.fetch EXCEPT ![q] = NoAnswer("none")]
           c == [l \in DOMAIN ss.cache \cup {q} |-> IF l = q THEN ss.fetch[q].list ELSE ss.cache[l]]
           t == [ss EXCEPT !.cache = c, !.fetch = f]
<1>1. /\ f[q].step = "none" /\ f = [l \in Lists |-> f[l]]
      /\ \A l \in Lists \ {q} : f[l] = ss.fetch[l]
  BY DEF SsInv, SsSound, SsData, SsShape, NoAnswer
<1>2. /\ DOMAIN c = DOMAIN ss.cache \cup {q} /\ c = [l \in DOMAIN c |-> c[l]] /\ c[q] = ss.fetch[q].list
      /\ \A l \in DOMAIN ss.cache \ {q} : c[l] = ss.cache[l]
  OBVIOUS
<1>3. ss' = RenderedStudio(t) /\ ss.fetch[q].step = "answered"
  <2>1. t = [ss EXCEPT !.cache = c, !.fetch[q] = NoAnswer("none")]
    BY DEF SsInv, SsSound, SsData, SsShape
  <2> HIDE DEF t
  <2>2. QED
    BY <2>1 DEF ListArrives
<1> HIDE DEF f, c
<1>4. /\ t.at = ss.at /\ t.cache = c /\ t.fetch = f /\ t.net = ss.net
      /\ t.early = ss.early /\ t.active = ss.active /\ t.canvas = ss.canvas
  BY DEF SsInv, SsSound, SsData, SsShape
<1>5. SsShape(t)
  BY <1>1, <1>2, <1>4 DEF SsInv, SsSound, SsData, SsShape
<1> HIDE DEF t
<1>6. ListsThere(t)
  BY <1>1, <1>2, <1>3, <1>4 DEF SsInv, SsSound, SsData, ListsThere, InCache, Lists
<1>7. ASSUME ~t.early, NEW l \in Lists PROVE ListTrue(t, l)
  <2>1. ListTrue(ss, l)
    BY <1>4, <1>7 DEF SsInv, SsSound, SsData
  <2>2. CASE l = q
    BY <1>1, <1>2, <1>3, <1>4, <2>1, <2>2 DEF ListTrue, Fresh, InCache
  <2>3. CASE l # q
    BY <1>1, <1>2, <1>4, <2>1, <2>3 DEF ListTrue, Fresh, InCache
  <2>4. QED
    BY <2>2, <2>3
<1>8. SsData(t) /\ (PageRenders(ss) => PageRenders(t))
  BY <1>2, <1>4, <1>5, <1>6, <1>7 DEF SsData, PageRenders, InCache
<1>9. QED
  BY <1>3, <1>4, <1>8, CanvasFollows DEF SsInv, SsSound

(* Pages are created and changed: they stay pages.                         *)
LEMMA AfterPages ==
    ASSUME SsInv, NEW m, IsCall(m), m.on = "pages", NEW new \in After(m)
    PROVE  IsPages(new)
<1> DEFINE at == ss.at["pages"]
<1>1. IsPages(at) /\ m.do \in PageCalls
  BY DEF SsInv, SsSound, SsData, ListsThere, IsCall
<1>2. ASSUME NEW w, NEW x \in Patched(at, w) PROVE IsPages(x)
  <2> DEFINE Entry(i) == IF at[i].id = w.id THEN With(at[i], w.change) ELSE at[i]
             p == [i \in DOMAIN at |-> Entry(i)]
  <2>1. x = p
    BY <1>2 DEF Patched, NotDone
  <2>2. at \in Seq(Range(at)) /\ at # <<>>
    BY <1>1 DEF IsPages
  <2> HIDE DEF at
  <2>3. Len(at) \in Nat /\ DOMAIN at = 1..Len(at) /\ Len(at) > 0
    BY <2>2, LenProperties, EmptySeq
  <2> HIDE DEF Entry
  <2>4. DOMAIN p = 1..Len(at) /\ p = [i \in 1..Len(at) |-> p[i]] /\ \A i \in 1..Len(at) : p[i] \in Range(p)
    BY <2>3 DEF Range
  <2> HIDE DEF p
  <2>5. p \in [1..Len(at) -> Range(p)]
    BY <2>4
  <2>6. p \in Seq(Range(p))
    BY <2>3, <2>5, SeqDef
  <2>7. p # <<>>
    BY <2>3, <2>4
  <2>8. QED
    BY <2>1, <2>6, <2>7 DEF IsPages
<1>3. ASSUME NEW x \in Created(at, m) PROVE IsPages(x)
  <2> DEFINE e == [id |-> m.nth, path |-> m.with.path, title |-> 0, published |-> FALSE, src |-> 0]
             p == Append(at, e)
  <2>1. x = p
    BY <1>3 DEF Created, NotDone
  <2>2. at \in Seq(Range(at))
    BY <1>1 DEF IsPages
  <2> HIDE DEF at, e
  <2> DEFINE T == Range(at) \cup {e}
  <2>3. at \in Seq(T) /\ e \in T
    BY <2>2
  <2> HIDE DEF T
  <2>4. p \in Seq(T) /\ Len(p) = Len(at) + 1 /\ Len(at) \in Nat
    BY <2>3, AppendProperties, LenProperties
  <2> HIDE DEF p
  <2>5. p \in [1..Len(p) -> T] /\ Len(p) \in Nat /\ DOMAIN p = 1..Len(p)
    BY <2>4, LenProperties
  <2>6. p = [i \in 1..Len(p) |-> p[i]] /\ \A i \in 1..Len(p) : p[i] \in Range(p)
    BY <2>5 DEF Range
  <2>7. p \in [1..Len(p) -> Range(p)]
    BY <2>6
  <2>8. p \in Seq(Range(p))
    BY <2>5, <2>7, SeqDef
  <2>9. p # <<>>
    BY <2>4
  <2>10. QED
    BY <2>1, <2>8, <2>9 DEF IsPages
<1>4. \/ new \in Created(at, m) \/ \E w : new \in Patched(at, w)
  BY <1>1 DEF After, PageCalls
<1>5. QED
  BY <1>2, <1>3, <1>4

(* A list of the same length, of builds with the same versions, is one.     *)
LEMMA StayBuilds ==
    ASSUME NEW b, IsBuilds(b), NEW n, DOMAIN n = DOMAIN b, n = [k \in DOMAIN n |-> n[k]],
           \A k \in DOMAIN b : IsBuild(n[k]) /\ n[k].version = b[k].version
    PROVE  IsBuilds(n)
<1>1. b \in Seq(Range(b)) /\ \A k \in DOMAIN b : b[k].version = Len(b) + 1 - k
  BY DEF IsBuilds
<1>2. Len(b) \in Nat /\ DOMAIN b = 1..Len(b)
  BY <1>1, LenProperties
<1>3. n = [k \in 1..Len(b) |-> n[k]] /\ \A k \in 1..Len(b) : n[k] \in Range(n)
  BY <1>2 DEF Range
<1>4. n \in [1..Len(b) -> Range(n)]
  BY <1>3
<1>5. n \in Seq(Range(n))
  BY <1>2, <1>4, SeqDef
<1>6. Len(n) = Len(b)
  BY <1>2, <1>5, LenProperties
<1>7. QED
  BY <1>1, <1>5, <1>6 DEF IsBuilds

(* Activating a build changes who is active in its environment.            *)
LEMMA ActivatedIs ==
    ASSUME NEW b, IsBuilds(b), NEW v
    PROVE  LET n == Activated(b, v)
           IN /\ IsBuilds(n) /\ DOMAIN n = DOMAIN b
              /\ \A k \in DOMAIN b : n[k].env = b[k].env /\ n[k].written = b[k].written
              /\ \A i \in DOMAIN b : v = b[i].version =>
                    \A k \in DOMAIN b : n[k] = b[k] \/ b[k].env = b[i].env
<1> DEFINE n == Activated(b, v)
           env == (CHOOSE c \in Range(b) : c.version = v).env
           Is(k) == b[k].version = v
<1>1. n = [k \in DOMAIN b |-> IF b[k].env = env THEN [b[k] EXCEPT !.active = Is(k)] ELSE b[k]]
  BY DEF Activated
<1>2. ASSUME NEW k \in DOMAIN b
      PROVE  LET r == [b[k] EXCEPT !.active = Is(k)]
             IN IsBuild(r) /\ r.version = b[k].version /\ r.env = b[k].env /\ r.written = b[k].written
  <2> HIDE DEF Is
  <2> QED
    BY <1>2 DEF IsBuilds, IsBuild
<1> HIDE DEF Is
<1>3. ASSUME NEW i \in DOMAIN b, v = b[i].version PROVE env = b[i].env
  <2>1. b \in Seq(Range(b)) /\ \A k \in DOMAIN b : b[k].version = Len(b) + 1 - k
    BY DEF IsBuilds
  <2>2. Len(b) \in Nat /\ DOMAIN b = 1..Len(b)
    BY <2>1, LenProperties
  <2>3. \A c \in Range(b) : c.version = v => c = b[i]
    <3> SUFFICES ASSUME NEW k \in DOMAIN b, b[k].version = v PROVE k = i
      BY DEF Range
    <3>1. b[k].version = Len(b) + 1 - k /\ b[i].version = Len(b) + 1 - i
      BY <2>1
    <3>2. k \in Nat /\ i \in Nat
      BY <2>2
    <3>3. QED
      BY <1>3, <2>2, <3>1, <3>2
  <2>4. b[i] \in Range(b)
    BY DEF Range
  <2>5. QED
    BY <1>3, <2>3, <2>4
<1> HIDE DEF env
<1>4. /\ DOMAIN n = DOMAIN b /\ n = [k \in DOMAIN n |-> n[k]]
      /\ \A k \in DOMAIN b : n[k] = IF b[k].env = env THEN [b[k] EXCEPT !.active = Is(k)] ELSE b[k]
  BY <1>1
<1> HIDE DEF n
<1>5. \A k \in DOMAIN b : /\ IsBuild(n[k]) /\ n[k].version = b[k].version
                          /\ n[k].env = b[k].env /\ n[k].written = b[k].written
  BY <1>2, <1>4 DEF IsBuilds
<1>6. IsBuilds(n)
  BY <1>4, <1>5, StayBuilds
<1>7. ASSUME NEW i \in DOMAIN b, v = b[i].version, NEW k \in DOMAIN b PROVE n[k] = b[k] \/ b[k].env = b[i].env
  BY <1>3, <1>4, <1>7
<1>8. QED
  BY <1>4, <1>5, <1>6, <1>7 DEF n

(* Builds are added and activated: they stay builds.                       *)
LEMMA AfterBuilds ==
    ASSUME SsInv, NEW m, IsCall(m), m.on = "builds", NEW new \in After(m)
    PROVE  IsBuilds(new)
<1> DEFINE at == ss.at["builds"]
           e == [version |-> Len(at) + 1, env |-> m.with.env, status |-> "queued", active |-> FALSE,
                 written |-> 0]
<1>1. IsBuilds(at) /\ m.do \in BuildCalls
  BY DEF SsInv, SsSound, SsData, ListsThere, IsCall
<1>2. IsBuild(e) /\ e.version = Len(at) + 1
  BY DEF IsBuild
<1>3. \/ new = <<e>> \o at \/ new \in Promoted(at, m.with.version)
  BY <1>1 DEF After, BuildCalls
<1> HIDE DEF at, e
<1>4. CASE new = <<e>> \o at
  <2> DEFINE T == Range(at) \cup {e}
  <2>1. at \in Seq(T) /\ e \in T /\ at \in Seq(Range(at))
    BY <1>1 DEF IsBuilds
  <2> HIDE DEF T
  <2>2. <<e>> \in Seq(T) /\ Len(<<e>>) = 1 /\ <<e>>[1] = e
    BY <2>1
  <2>3. Len(at) \in Nat /\ DOMAIN at = 1..Len(at)
    BY <2>1, LenProperties
  <2>4. /\ new \in Seq(T) /\ Len(new) = 1 + Len(at)
        /\ \A i \in 1..1 + Len(at) : new[i] = IF i <= 1 THEN <<e>>[i] ELSE at[i - 1]
    BY <1>4, <2>1, <2>2, ConcatProperties
  <2>5. new[1] = e /\ \A i \in 2..1 + Len(at) : new[i] = at[i - 1]
    BY <2>2, <2>3, <2>4
  <2>6. new \in [1..Len(new) -> T] /\ Len(new) \in Nat /\ DOMAIN new = 1..Len(new)
    BY <2>4, LenProperties
  <2>7. new = [i \in 1..Len(new) |-> new[i]] /\ \A i \in 1..Len(new) : new[i] \in Range(new)
    BY <2>6 DEF Range
  <2>8. new \in [1..Len(new) -> Range(new)]
    BY <2>7
  <2>9. new \in Seq(Range(new))
    BY <2>6, <2>8, SeqDef
  <2>10. ASSUME NEW i \in DOMAIN new PROVE IsBuild(new[i]) /\ new[i].version = Len(new) + 1 - i
    <3>1. CASE i = 1
      BY <1>2, <2>3, <2>4, <2>5, <3>1
    <3>2. CASE i # 1
      <4>1. i \in 2..1 + Len(at) /\ i - 1 \in DOMAIN at /\ new[i] = at[i - 1]
        BY <2>3, <2>4, <2>5, <2>6, <3>2
      <4>2. IsBuild(at[i - 1]) /\ at[i - 1].version = Len(at) + 1 - (i - 1)
        BY <1>1, <4>1 DEF IsBuilds
      <4>3. QED
        BY <2>3, <2>4, <2>6, <4>1, <4>2
    <3>3. QED
      BY <3>1, <3>2
  <2>11. QED
    BY <2>9, <2>10 DEF IsBuilds
<1>5. CASE new \in Promoted(at, m.with.version)
  <2>1. new = Activated(at, m.with.version)
    BY <1>5 DEF Promoted, NotDone
  <2>2. QED
    BY <1>1, <2>1, ActivatedIs
<1>6. QED
  BY <1>3, <1>4, <1>5

(* The server changes a list, and its request will invalidate it.          *)
LEMMA HandleSound == \A m \in ss.net : SsInv /\ Handle(m) => SsInv'
<1> SUFFICES ASSUME SsInv, NEW m \in ss.net, Handle(m) PROVE SsInv'
  OBVIOUS
<1>1. IsCall(m) /\ m.step = "sent"
  BY DEF Handle, SsInv, SsSound, SsData, SsShape
<1>2. ASSUME NEW s \in {"done", "refused"}
      PROVE  LET d == [m EXCEPT !.step = s] IN IsCall(d) /\ d.on = m.on /\ d.step = s
  BY <1>1 DEF IsCall
<1>3. ASSUME NEW new \in After(m),
             ss' = [ss EXCEPT !.at[m.on] = new, !.net = (@ \ {m}) \cup {[m EXCEPT !.step = "done"]}]
      PROVE  SsInv'
  <2> DEFINE d == [m EXCEPT !.step = "done"]
             a == [ss.at EXCEPT ![m.on] = new]
             net == (ss.net \ {m}) \cup {d}
             t == [ss EXCEPT !.at = a, !.net = net]
  <2>1. ss' = t
    BY <1>3 DEF SsInv, SsSound, SsData, SsShape
  <2>2. IsCall(d) /\ d.on = m.on /\ d.step = "done"
    BY <1>2
  <2> HIDE DEF d
  <2>3. /\ a = [q \in Lists |-> a[q]] /\ a[m.on] = new /\ m.on \in Lists
        /\ \A q \in Lists \ {m.on} : a[q] = ss.at[q]
    BY <1>1 DEF SsInv, SsSound, SsData, SsShape, IsCall
  <2>4. /\ d \in net /\ \A k \in net : IsCall(k)
        /\ \A k \in ss.net : k.on # m.on => k \in net
    BY <2>2 DEF SsInv, SsSound, SsData, SsShape
  <2> HIDE DEF a, net
  <2>5. /\ t.at = a /\ t.cache = ss.cache /\ t.fetch = ss.fetch /\ t.net = net
        /\ t.early = ss.early /\ t.active = ss.active /\ t.canvas = ss.canvas
    BY DEF SsInv, SsSound, SsData, SsShape
  <2>6. SsShape(t)
    BY <2>3, <2>4, <2>5 DEF SsInv, SsSound, SsData, SsShape
  <2> HIDE DEF t
  <2>7. ListsThere(t)
    <3>1. IsPages(a["pages"])
      BY <1>1, <2>3, AfterPages DEF SsInv, SsSound, SsData, ListsThere, Lists
    <3>2. IsBuilds(a["builds"])
      BY <1>1, <2>3, AfterBuilds DEF SsInv, SsSound, SsData, ListsThere, Lists
    <3>3. QED
      BY <2>5, <3>1, <3>2 DEF SsInv, SsSound, SsData, ListsThere, InCache
  <2>8. ASSUME ~t.early, NEW q \in Lists PROVE ListTrue(t, q)
    <3>1. CASE q = m.on
      BY <2>2, <2>4, <2>5, <3>1 DEF ListTrue
    <3>2. CASE q # m.on
      <4>1. ListTrue(ss, q)
        BY <2>5, <2>8 DEF SsInv, SsSound, SsData
      <4>2. QED
        BY <2>3, <2>4, <2>5, <3>2, <4>1 DEF ListTrue, Fresh, InCache
    <3>3. QED
      BY <3>1, <3>2
  <2>9. SsData(t)
    BY <2>6, <2>7, <2>8 DEF SsData
  <2>10. QED
    BY <2>1, <2>5, <2>9, QuietStep
<1>4. ASSUME ss' = [ss EXCEPT !.net = (@ \ {m}) \cup {[m EXCEPT !.step = "refused"]}]
      PROVE  SsInv'
  <2> DEFINE d == [m EXCEPT !.step = "refused"]
             net == (ss.net \ {m}) \cup {d}
             t == [ss EXCEPT !.net = net]
  <2>1. ss' = t
    BY <1>4
  <2>2. IsCall(d) /\ d.on = m.on /\ d.step = "refused"
    BY <1>2
  <2> HIDE DEF d
  <2>3. /\ \A k \in net : IsCall(k)
        /\ \A k \in ss.net : k.step = "done" => k \in net
    BY <1>1, <2>2 DEF SsInv, SsSound, SsData, SsShape
  <2> HIDE DEF net
  <2>4. /\ t.at = ss.at /\ t.cache = ss.cache /\ t.fetch = ss.fetch /\ t.net = net
        /\ t.early = ss.early /\ t.active = ss.active /\ t.canvas = ss.canvas
    BY DEF SsInv, SsSound, SsData, SsShape
  <2>5. SsShape(t)
    BY <2>3, <2>4 DEF SsInv, SsSound, SsData, SsShape
  <2> HIDE DEF t
  <2>6. SsData(t)
    BY <2>3, <2>4, <2>5 DEF SsInv, SsSound, SsData, ListsThere, ListTrue, Fresh, InCache
  <2>7. QED
    BY <2>1, <2>4, <2>6, QuietStep
<1>5. QED
  BY <1>3, <1>4 DEF Handle

(* A request that was answered is forgotten.                               *)
LEMMA SettledIs ==
    ASSUME SsInv, NEW m
    PROVE  LET t == Settled(m)
           IN /\ t.at = ss.at /\ t.cache = ss.cache /\ t.fetch = ss.fetch /\ t.net = ss.net \ {m}
              /\ t.early = ss.early /\ t.active = ss.active /\ t.canvas = ss.canvas /\ SsShape(t)
<1> DEFINE l == [ss.last EXCEPT ![m.do] = IF @ = m.nth THEN 0 ELSE @]
           t == [ss EXCEPT !.net = @ \ {m}, !.last = l]
<1>1. Settled(m) = t
  BY DEF Settled, SsInv, SsSound, SsData, SsShape
<1> HIDE DEF l
<1>2. /\ t.at = ss.at /\ t.cache = ss.cache /\ t.fetch = ss.fetch /\ t.net = ss.net \ {m}
      /\ t.early = ss.early /\ t.active = ss.active /\ t.canvas = ss.canvas
  BY DEF SsInv, SsSound, SsData, SsShape
<1>3. SsShape(t)
  BY <1>2 DEF SsInv, SsSound, SsData, SsShape
<1> HIDE DEF t
<1>4. QED
  BY <1>1, <1>2, <1>3

(* A refused request changed nothing.                                      *)
LEMMA ErrorSound == \A m \in ss.net : SsInv /\ AnsweredWithError(m) => SsInv'
<1> SUFFICES ASSUME SsInv, NEW m \in ss.net, AnsweredWithError(m) PROVE SsInv'
  OBVIOUS
<1> DEFINE t == Settled(m)
<1>1. ss' = RenderedStudio(t) /\ m.step = "refused"
  BY DEF AnsweredWithError
<1>2. /\ t.at = ss.at /\ t.cache = ss.cache /\ t.fetch = ss.fetch /\ t.net = ss.net \ {m}
      /\ t.early = ss.early /\ t.active = ss.active /\ t.canvas = ss.canvas /\ SsShape(t)
  BY SettledIs
<1> HIDE DEF t
<1>3. SsData(t) /\ (PageRenders(ss) => PageRenders(t))
  BY <1>1, <1>2 DEF SsInv, SsSound, SsData, ListsThere, ListTrue, Fresh, InCache, PageRenders
<1>4. QED
  BY <1>1, <1>2, <1>3, CanvasFollows DEF SsInv, SsSound

(* What a request changed is asked for when it is answered.                *)
LEMMA SiteAnsweredSound == \A m \in ss.net : SsInv /\ SiteAnswered(m) => SsInv'
<1> SUFFICES ASSUME SsInv, NEW m \in ss.net, SiteAnswered(m) PROVE SsInv'
  OBVIOUS
<1> DEFINE r == Settled(m)
           to == IF m.do = "importDesign" THEN m.with.id ELSE r.active
           t == [r EXCEPT !.active = to]
           q == m.on
           u == ListInvalidated(t, q)
<1>1. ss' = RenderedStudio(u) /\ q \in Lists
  <2>1. q \in Lists
    BY DEF SsInv, SsSound, SsData, SsShape, IsCall
  <2>2. t = [r EXCEPT !.active = IF m.do = "importDesign" THEN m.with.id ELSE @]
    BY SettledIs DEF SsShape
  <2> HIDE DEF t, r
  <2>3. QED
    BY <2>1, <2>2 DEF SiteAnswered, r
<1> HIDE DEF to
<1>2. /\ r.at = ss.at /\ r.cache = ss.cache /\ r.fetch = ss.fetch /\ r.net = ss.net \ {m}
      /\ r.early = ss.early /\ r.canvas = ss.canvas /\ SsShape(r)
  BY SettledIs
<1> HIDE DEF r
<1>3. /\ t.at = ss.at /\ t.cache = ss.cache /\ t.fetch = ss.fetch /\ t.net = ss.net \ {m}
      /\ t.early = ss.early /\ t.canvas = ss.canvas /\ SsShape(t)
  BY <1>2 DEF SsShape
<1> HIDE DEF t
<1>4. ListsThere(t)
  BY <1>3 DEF SsInv, SsSound, SsData, ListsThere, InCache
<1>5. ~t.early => \A l \in Lists \ {q} : ListTrue(t, l)
  BY <1>3 DEF SsInv, SsSound, SsData, ListTrue, Fresh, InCache
<1>6. CASE ~InCache(t, q) /\ OnItsWay(t, q)
  <2> DEFINE v == [t EXCEPT !.early = TRUE]
  <2>1. u = v
    BY <1>6 DEF ListInvalidated
  <2>2. /\ v.at = t.at /\ v.cache = t.cache /\ v.fetch = t.fetch /\ v.net = t.net
        /\ v.early = TRUE /\ v.canvas = t.canvas /\ v.active = t.active
    BY <1>3 DEF SsShape
  <2>3. SsShape(v)
    BY <1>3, <2>2 DEF SsShape
  <2> HIDE DEF v, u
  <2>4. SsData(v) /\ (PageRenders(ss) => PageRenders(v))
    BY <1>3, <1>4, <2>2, <2>3 DEF SsData, ListsThere, InCache, PageRenders
  <2>5. QED
    BY <1>1, <1>3, <2>1, <2>2, <2>4, CanvasFollows DEF SsInv, SsSound
<1>7. CASE ~(~InCache(t, q) /\ OnItsWay(t, q))
  <2>1. u = AskFor(t, q)
    BY <1>7 DEF ListInvalidated
  <2> HIDE DEF u
  <2>2. SsData(u) /\ u.canvas = t.canvas /\ u.cache = t.cache
    BY <1>1, <1>3, <1>4, <1>5, <2>1, AskedSound
  <2>3. PageRenders(ss) => PageRenders(u)
    BY <1>3, <2>2 DEF PageRenders, InCache
  <2>4. QED
    BY <1>1, <1>3, <2>2, <2>3, CanvasFollows DEF SsInv, SsSound
<1>8. QED
  BY <1>6, <1>7

(* What the workers write leaves every earlier list behind.                *)
LEMMA BehindStays ==
    ASSUME NEW l, NEW b, NEW n, Behind(l, b), Behind(b, n)
    PROVE  Behind(l, n)
<1>1. DOMAIN l = DOMAIN b /\ DOMAIN b = DOMAIN n
  BY DEF Behind
<1>2. ASSUME NEW i \in DOMAIN l
      PROVE  /\ l[i].env = b[i].env /\ b[i].env = n[i].env
             /\ l[i].written \in Nat /\ b[i].written \in Nat /\ n[i].written \in Nat
             /\ l[i].written <= b[i].written /\ b[i].written <= n[i].written
             /\ l[i] = b[i] \/ Overtaken(l, b, i)
             /\ b[i] = n[i] \/ Overtaken(b, n, i)
  <2>1. i \in DOMAIN b
    BY <1>1
  <2>2. /\ l[i].env = b[i].env /\ l[i].written \in Nat /\ b[i].written \in Nat
        /\ l[i].written <= b[i].written /\ (l[i] = b[i] \/ Overtaken(l, b, i))
    BY DEF Behind
  <2>3. /\ b[i].env = n[i].env /\ n[i].written \in Nat
        /\ b[i].written <= n[i].written /\ (b[i] = n[i] \/ Overtaken(b, n, i))
    BY <2>1 DEF Behind
  <2>4. QED
    BY <2>2, <2>3
<1>3. ASSUME NEW i \in DOMAIN l PROVE l[i] = n[i] \/ Overtaken(l, n, i)
  <2>1. CASE Overtaken(l, b, i)
    <3>1. PICK j \in DOMAIN l : l[j].env = l[i].env /\ l[j].written < b[j].written
      BY <2>1 DEF Overtaken
    <3>2. l[j].written < n[j].written
      BY <1>2, <3>1
    <3>3. QED
      BY <3>1, <3>2 DEF Overtaken
  <2>2. CASE Overtaken(b, n, i)
    <3>1. PICK j \in DOMAIN b : b[j].env = b[i].env /\ b[j].written < n[j].written
      BY <2>2 DEF Overtaken
    <3>2. l[j].written < n[j].written /\ l[j].env = l[i].env
      BY <1>1, <1>2, <3>1
    <3>3. QED
      BY <1>1, <3>1, <3>2 DEF Overtaken
  <2>3. QED
    BY <1>2, <2>1, <2>2
<1>4. ASSUME NEW i \in DOMAIN l
      PROVE  l[i].env = n[i].env /\ n[i].written \in Nat /\ l[i].written <= n[i].written
  BY <1>2
<1>5. QED
  BY <1>1, <1>2, <1>3, <1>4 DEF Behind

(* One write.                                                              *)
LEMMA WroteIs ==
    ASSUME NEW b, IsBuilds(b), NEW i \in DOMAIN b, NEW status
    PROVE  LET n == Wrote(b, i, status)
           IN /\ IsBuilds(n) /\ DOMAIN n = DOMAIN b
              /\ \A k \in DOMAIN b \ {i} : n[k] = b[k]
              /\ n[i].env = b[i].env /\ n[i].version = b[i].version
              /\ b[i].written \in Nat /\ n[i].written = b[i].written + 1
<1> DEFINE r == [[b[i] EXCEPT !.status = status] EXCEPT !.written = @ + 1]
           n == [b EXCEPT ![i] = r]
<1>1. Wrote(b, i, status) = n
  <2>1. b = [k \in DOMAIN b |-> b[k]]
    BY DEF IsBuilds
  <2>2. QED
    BY <2>1 DEF Wrote
<1>2. IsBuild(b[i])
  BY DEF IsBuilds
<1>3. /\ IsBuild(r) /\ r.version = b[i].version /\ r.env = b[i].env /\ r.written = b[i].written + 1
      /\ b[i].written \in Nat
  <2> DEFINE c == b[i]
             x == [c EXCEPT !.status = status]
             y == [x EXCEPT !.written = @ + 1]
  <2>1. y = r
    OBVIOUS
  <2>2. IsBuild(c)
    BY <1>2
  <2> HIDE DEF c, y
  <2>3. /\ x \in [version : {c.version}, env : {c.env}, status : {status}, active : {c.active},
                  written : {c.written}]
        /\ c.written \in Nat
    BY <2>2 DEF IsBuild
  <2> HIDE DEF x
  <2>4. y \in [version : {c.version}, env : {c.env}, status : {status}, active : {c.active},
               written : {c.written + 1}]
    BY <2>3 DEF y
  <2> HIDE DEF r
  <2>5. IsBuild(y) /\ y.version = c.version /\ y.env = c.env /\ y.written = c.written + 1
    BY <2>3, <2>4 DEF IsBuild
  <2>6. QED
    BY <2>1, <2>3, <2>5 DEF c
<1> HIDE DEF r
<1>4. DOMAIN n = DOMAIN b /\ n = [k \in DOMAIN n |-> n[k]] /\ n[i] = r /\ \A k \in DOMAIN b \ {i} : n[k] = b[k]
  BY DEF IsBuilds
<1> HIDE DEF n
<1>5. IsBuilds(n)
  <2>1. \A k \in DOMAIN b : IsBuild(n[k]) /\ n[k].version = b[k].version
    BY <1>3, <1>4 DEF IsBuilds
  <2>2. QED
    BY <1>4, <2>1, StayBuilds
<1>6. QED
  BY <1>1, <1>3, <1>4, <1>5

(* A list is behind one that differs in written builds only, and in others *)
(* of their environment.                                                   *)
LEMMA WrittenBehind ==
    ASSUME NEW b, IsBuilds(b), NEW n, NEW i \in DOMAIN b, DOMAIN n = DOMAIN b,
           \A k \in DOMAIN b : n[k].env = b[k].env,
           n[i].written = b[i].written + 1, \A k \in DOMAIN b \ {i} : n[k].written = b[k].written,
           \A k \in DOMAIN b : n[k] = b[k] \/ b[k].env = b[i].env
    PROVE  Behind(b, n)
<1>1. \A k \in DOMAIN b : b[k].written \in Nat
  BY DEF IsBuilds, IsBuild
<1>2. \A k \in DOMAIN b : n[k].written \in Nat /\ b[k].written <= n[k].written
  BY <1>1
<1>3. b[i].written < n[i].written
  BY <1>1
<1>4. \A k \in DOMAIN b : b[k] = n[k] \/ Overtaken(b, n, k)
  BY <1>3 DEF Overtaken
<1>5. QED
  BY <1>1, <1>2, <1>4 DEF Behind

(* What is known of the builds stays true, or falls behind.                *)
LEMMA WritesBuilds ==
    ASSUME SsInv, NEW j, NEW n, IsBuilds(n), n = ss.at["builds"] \/ Behind(ss.at["builds"], n),
           ss' = [ss EXCEPT !.jobs = j, !.at = [ss.at EXCEPT !["builds"] = n]]
    PROVE  SsInv'
<1> DEFINE a == [ss.at EXCEPT !["builds"] = n]
           t == [ss EXCEPT !.jobs = j, !.at = a]
<1>1. a = [q \in Lists |-> a[q]] /\ a["builds"] = n /\ \A q \in Lists \ {"builds"} : a[q] = ss.at[q]
  BY DEF SsInv, SsSound, SsData, SsShape, Lists
<1>2. ss' = t
  OBVIOUS
<1> HIDE DEF a
<1>3. /\ t.at = a /\ t.cache = ss.cache /\ t.fetch = ss.fetch /\ t.net = ss.net
      /\ t.early = ss.early /\ t.active = ss.active /\ t.canvas = ss.canvas
  BY DEF SsInv, SsSound, SsData, SsShape
<1>4. SsShape(t)
  BY <1>1, <1>3 DEF SsInv, SsSound, SsData, SsShape
<1> HIDE DEF t
<1>5. ListsThere(t)
  BY <1>1, <1>3 DEF SsInv, SsSound, SsData, ListsThere, InCache, Lists
<1>6. ASSUME ~t.early, NEW q \in Lists PROVE ListTrue(t, q)
  <2>1. ListTrue(ss, q)
    BY <1>3, <1>6 DEF SsInv, SsSound, SsData
  <2>2. ASSUME NEW l, Fresh(ss, q, l) PROVE Fresh(t, q, l)
    <3>1. CASE q # "builds"
      BY <1>1, <1>3, <2>2, <3>1 DEF Fresh
    <3>2. CASE q = "builds"
      <4>1. l = ss.at["builds"] \/ Unfinished(l) \/ Behind(l, ss.at["builds"])
        BY <2>2, <3>2 DEF Fresh
      <4>2. l = n \/ Unfinished(l) \/ Behind(l, n)
        BY <4>1, BehindStays
      <4>3. QED
        BY <1>1, <1>3, <3>2, <4>2 DEF Fresh
    <3>3. QED
      BY <3>1, <3>2
  <2>3. QED
    BY <1>3, <2>1, <2>2 DEF ListTrue, InCache
<1>7. SsData(t)
  BY <1>4, <1>5, <1>6 DEF SsData
<1>8. QED
  BY <1>2, <1>3, <1>7, QuietStep

(* A worker takes a build, fails, or makes one ready and activates it.     *)
LEMMA WorkerSound == SsInv /\ Worker => SsInv'
<1> SUFFICES ASSUME SsInv, NEW i \in DOMAIN ss.at["builds"],
                    WorkerTakes(i) \/ WorkerFails(i) \/ WorkerFinishes(i)
             PROVE  SsInv'
  BY DEF Worker
<1> DEFINE b == ss.at["builds"]
           v == b[i].version
<1>1. IsBuilds(b)
  BY DEF SsInv, SsSound, SsData, ListsThere
<1>2. \A st : /\ IsBuilds(Wrote(b, i, st)) /\ DOMAIN Wrote(b, i, st) = DOMAIN b
              /\ \A k \in DOMAIN b \ {i} : Wrote(b, i, st)[k] = b[k]
              /\ Wrote(b, i, st)[i].env = b[i].env /\ Wrote(b, i, st)[i].version = b[i].version
              /\ b[i].written \in Nat /\ Wrote(b, i, st)[i].written = b[i].written + 1
  BY <1>1, WroteIs
<1>3. ASSUME NEW st PROVE Behind(b, Wrote(b, i, st))
  <2> DEFINE n == Wrote(b, i, st)
  <2>1. /\ DOMAIN n = DOMAIN b /\ \A k \in DOMAIN b \ {i} : n[k] = b[k]
        /\ n[i].env = b[i].env /\ n[i].written = b[i].written + 1
    BY <1>2
  <2> HIDE DEF n, b
  <2>2. \A k \in DOMAIN b : n[k].env = b[k].env /\ (n[k] = b[k] \/ b[k].env = b[i].env)
    BY <2>1
  <2>3. \A k \in DOMAIN b \ {i} : n[k].written = b[k].written
    BY <2>1
  <2>4. i \in DOMAIN b
    BY DEF b
  <2>5. Behind(b, n)
    BY <1>1, <2>1, <2>2, <2>3, <2>4, WrittenBehind
  <2>6. QED
    BY <2>5 DEF n
<1>4. ASSUME NEW j, NEW n, ss' = [ss EXCEPT !.jobs[v] = j, !.at.builds = n]
      PROVE  ss' = [ss EXCEPT !.jobs = [ss.jobs EXCEPT ![v] = j], !.at = [ss.at EXCEPT !["builds"] = n]]
  BY <1>4 DEF SsInv, SsSound, SsData, SsShape
<1>5. CASE WorkerTakes(i)
  <2> DEFINE n == IF b[i].status = "queued" THEN b ELSE Wrote(b, i, "queued")
  <2>1. PICK j : ss' = [ss EXCEPT !.jobs[v] = j, !.at.builds = n]
    BY <1>5 DEF WorkerTakes
  <2>2. IsBuilds(n) /\ (n = b \/ Behind(b, n))
    BY <1>1, <1>2, <1>3
  <2> HIDE DEF n, b
  <2>3. QED
    BY <1>4, <2>1, <2>2, WritesBuilds DEF b
<1>6. CASE WorkerFails(i)
  <2> DEFINE n == Wrote(b, i, "failed")
  <2>1. ss' = [ss EXCEPT !.jobs = [ss.jobs EXCEPT ![v].begun = @ - 1], !.at = [ss.at EXCEPT !["builds"] = n]]
    BY <1>6 DEF WorkerFails, SsInv, SsSound, SsData, SsShape
  <2>2. IsBuilds(n) /\ Behind(b, n)
    BY <1>2, <1>3
  <2> HIDE DEF n
  <2>3. QED
    BY <2>1, <2>2, WritesBuilds
<1>7. CASE WorkerFinishes(i)
  <2> DEFINE w == Wrote(b, i, "ready")
             n == Activated(w, v)
  <2>1. PICK j : ss' = [ss EXCEPT !.jobs[v] = j, !.at.builds = n]
    BY <1>7 DEF WorkerFinishes
  <2>2. /\ IsBuilds(w) /\ DOMAIN w = DOMAIN b /\ \A k \in DOMAIN b \ {i} : w[k] = b[k]
        /\ w[i].env = b[i].env /\ w[i].version = b[i].version
        /\ b[i].written \in Nat /\ w[i].written = b[i].written + 1
    BY <1>2
  <2>3. i \in DOMAIN b
    OBVIOUS
  <2> HIDE DEF w, b
  <2>4. /\ IsBuilds(n) /\ DOMAIN n = DOMAIN w
        /\ \A k \in DOMAIN w : n[k].env = w[k].env /\ n[k].written = w[k].written
        /\ \A k \in DOMAIN w : n[k] = w[k] \/ w[k].env = w[i].env
    BY <2>2, <2>3, ActivatedIs
  <2> HIDE DEF n
  <2>5. /\ DOMAIN n = DOMAIN b /\ \A k \in DOMAIN b : n[k].env = b[k].env
        /\ n[i].written = b[i].written + 1 /\ \A k \in DOMAIN b \ {i} : n[k].written = b[k].written
        /\ \A k \in DOMAIN b : n[k] = b[k] \/ b[k].env = b[i].env
    BY <2>2, <2>3, <2>4
  <2>6. Behind(b, n)
    BY <1>1, <2>3, <2>5, WrittenBehind
  <2>7. QED
    BY <1>4, <2>1, <2>4, <2>6, WritesBuilds DEF b
<1>8. QED
  BY <1>5, <1>6, <1>7

(* The page opens with all lists, or all but one.                          *)
LEMMA SsInitInv == SsInit => SsInv
<1> SUFFICES ASSUME SsInit PROVE SsInv
  OBVIOUS
<1>1. PICK late \in Lists, domains \in {{}, {FirstDomain}}, step \in {"none", "asked"} :
         LET at == [site |-> [name |-> 0, published |-> FALSE], pages |-> <<FirstPage>>, bindings |-> {},
                    domains |-> domains, builds |-> <<FirstBuild>>]
         IN ss = RenderedStudio([at |-> at,
                          cache |-> [q \in {q \in Lists : step = "none" \/ q # late} |-> at[q]],
                          fetch |-> [q \in Lists |-> NoAnswer(IF q = late THEN step ELSE "none")],
                          net |-> {}, sent |-> 0, last |-> [do \in Mutations |-> 0], active |-> Null,
                          canvas |-> Null, jobs |-> FirstJobs, early |-> FALSE, ops |-> SsOps])
  <2>1. PICK late \in Lists : \E domains \in {{FirstDomain}} \cup {d \in {{}} : late = "domains"} :
         LET at == [site |-> [name |-> 0, published |-> FALSE], pages |-> <<FirstPage>>, bindings |-> {},
                    domains |-> domains, builds |-> <<FirstBuild>>]
         IN \E step \in {"none", "asked"} :
            ss = RenderedStudio([at |-> at,
                          cache |-> [q \in {q \in Lists : step = "none" \/ q # late} |-> at[q]],
                          fetch |-> [q \in Lists |-> NoAnswer(IF q = late THEN step ELSE "none")],
                          net |-> {}, sent |-> 0, last |-> [do \in Mutations |-> 0], active |-> Null,
                          canvas |-> Null, jobs |-> FirstJobs, early |-> FALSE, ops |-> SsOps])
    BY DEF SsInit
  <2>2. {{FirstDomain}} \cup {d \in {{}} : late = "domains"} \subseteq {{}, {FirstDomain}}
    OBVIOUS
  <2>3. PICK domains \in {{FirstDomain}} \cup {d \in {{}} : late = "domains"}, step \in {"none", "asked"} :
         LET at == [site |-> [name |-> 0, published |-> FALSE], pages |-> <<FirstPage>>, bindings |-> {},
                    domains |-> domains, builds |-> <<FirstBuild>>]
         IN ss = RenderedStudio([at |-> at,
                          cache |-> [q \in {q \in Lists : step = "none" \/ q # late} |-> at[q]],
                          fetch |-> [q \in Lists |-> NoAnswer(IF q = late THEN step ELSE "none")],
                          net |-> {}, sent |-> 0, last |-> [do \in Mutations |-> 0], active |-> Null,
                          canvas |-> Null, jobs |-> FirstJobs, early |-> FALSE, ops |-> SsOps])
    BY <2>1
  <2>4. domains \in {{}, {FirstDomain}}
    BY <2>2, <2>3
  <2>5. QED
    BY <2>3, <2>4
<1> DEFINE at == [site |-> [name |-> 0, published |-> FALSE], pages |-> <<FirstPage>>, bindings |-> {},
                  domains |-> domains, builds |-> <<FirstBuild>>]
           c == [q \in {q \in Lists : step = "none" \/ q # late} |-> at[q]]
           f == [q \in Lists |-> NoAnswer(IF q = late THEN step ELSE "none")]
           l == [do \in Mutations |-> 0]
           t == [at |-> at, cache |-> c, fetch |-> f, net |-> {}, sent |-> 0, last |-> l, active |-> Null,
                 canvas |-> Null, jobs |-> FirstJobs, early |-> FALSE, ops |-> SsOps]
           e == [t EXCEPT !.cache = [q \in {} |-> q]]
<1>2. ss = RenderedStudio(t)
  BY <1>1
<1>3. /\ f = [q \in Lists |-> f[q]] /\ \A q \in Lists : f[q].step = IF q = late THEN step ELSE "none"
  BY DEF NoAnswer
<1>4. /\ c = [q \in DOMAIN c |-> c[q]] /\ DOMAIN c \subseteq Lists /\ \A q \in DOMAIN c : c[q] = at[q]
      /\ \A q \in Lists : step = "none" \/ q # late => q \in DOMAIN c
  OBVIOUS
<1>5. at = [q \in Lists |-> at[q]] /\ IsPages(at["pages"]) /\ IsBuilds(at["builds"])
  <2>1. DOMAIN at = Lists
    BY DEF Lists
  <2>2. at = [q \in DOMAIN at |-> at[q]]
    OBVIOUS
  <2>3. at["pages"] = <<FirstPage>>
    OBVIOUS
  <2>4. IsPages(<<FirstPage>>)
    <3>1. FirstPage \in Range(<<FirstPage>>)
      BY DEF Range
    <3>2. QED
      BY <3>1 DEF IsPages
  <2>5. at["builds"] = <<FirstBuild>>
    OBVIOUS
  <2>6. IsBuilds(<<FirstBuild>>)
    <3>1. FirstBuild \in Range(<<FirstBuild>>)
      BY DEF Range
    <3>2. IsBuild(FirstBuild) /\ FirstBuild.version = 1
      BY DEF IsBuild, FirstBuild
    <3>3. QED
      BY <3>1, <3>2 DEF IsBuilds
  <2>7. QED
    BY <2>1, <2>2, <2>3, <2>4, <2>5, <2>6
<1> HIDE DEF at, c, f, l
<1>6. /\ t.at = at /\ t.cache = c /\ t.fetch = f /\ t.net = {} /\ t.early = FALSE /\ t.canvas = Null
      /\ SsShape(t)
  BY <1>3, <1>4, <1>5 DEF SsShape
<1>7. e.cache = [q \in {} |-> q] /\ e.canvas = Null
  BY <1>6 DEF SsShape
<1> HIDE DEF t, e
<1>8. SsData(t)
  <2>1. ListsThere(t)
    BY <1>3, <1>4, <1>5, <1>6 DEF ListsThere, InCache, Lists
  <2>2. \A q \in Lists : ListTrue(t, q)
    BY <1>3, <1>4, <1>6 DEF ListTrue, Fresh, InCache
  <2>3. QED
    BY <1>6, <2>1, <2>2 DEF SsData
<1>9. CanvasTrue(e) /\ ~PageRenders(e)
  BY <1>7 DEF CanvasTrue, PageRenders, InCache
<1>10. QED
  BY <1>2, <1>6, <1>7, <1>8, <1>9, CanvasFollows DEF SsInv

(* Every step keeps the invariant.                                         *)
LEMMA SsNextInv == SsInv /\ [SsNext]_ss => SsInv'
<1> SUFFICES ASSUME SsInv, [SsNext]_ss PROVE SsInv'
  OBVIOUS
<1>1. CASE SiteUser
  BY <1>1, SiteUserSound
<1>2. CASE CanvasMounts \/ PollBuilds \/ Worker
  BY <1>2, CanvasMountsSound, PollBuildsSound, WorkerSound
<1>3. CASE \E q \in Lists : ServeList(q) \/ ListArrives(q)
  BY <1>3, ServeListSound, ListArrivesSound
<1>4. CASE \E m \in ss.net : Handle(m) \/ SiteAnswered(m) \/ AnsweredWithError(m)
  BY <1>4, HandleSound, SiteAnsweredSound, ErrorSound
<1>5. CASE UNCHANGED ss
  BY <1>5 DEF SsInv
<1>6. QED
  BY <1>1, <1>2, <1>3, <1>4, <1>5 DEF SsNext

(* Quiet, every list is the server's, and so is the page's source.         *)
LEMMA SsInvSuffices == SsInv => QuietStudioIsTrue
<1> SUFFICES ASSUME SsInv, ss.net = {}, ~ss.early, ~Unfinished(Builds), \A q \in Lists : ~OnItsWay(ss, q)
             PROVE  /\ \A q \in Lists \ {"builds"} : HasList(q) /\ ss.cache[q] = ss.at[q]
                    /\ DOMAIN Builds = DOMAIN ss.at.builds
                    /\ \A i \in DOMAIN Builds :
                          \/ Builds[i] = ss.at.builds[i]
                          \/ \E j \in DOMAIN Builds : /\ Builds[j].env = Builds[i].env
                                                      /\ Builds[j].written < ss.at.builds[j].written
                    /\ ss.canvas.ready => \E p \in Range(ss.at.pages) :
                                             p.id = ActivePage(ss).id /\ p.src = ss.canvas.base
  BY DEF QuietStudioIsTrue
<1>1. \A q \in Lists : InCache(ss, q) /\ Fresh(ss, q, ss.cache[q])
  BY DEF SsInv, SsSound, SsData, ListTrue, OnItsWay
<1>2. \A q \in Lists \ {"builds"} : HasList(q) /\ ss.cache[q] = ss.at[q]
  BY <1>1 DEF Fresh, HasList
<1>3. Builds = ss.at.builds \/ Behind(Builds, ss.at.builds)
  BY <1>1 DEF Builds, HasList, Lists, Fresh
<1>4. PageRenders(ss) /\ Pages(ss) = ss.at["pages"] /\ IsPages(ss.at["pages"])
  BY <1>1, <1>2 DEF PageRenders, InCache, Pages, Lists, SsInv, SsSound, SsData, ListsThere
<1>5. ActivePage(ss) \in Range(ss.at["pages"])
  <2>1. Head(ss.at["pages"]) \in Range(ss.at["pages"])
    BY <1>4 DEF IsPages
  <2>2. QED
    BY <1>4, <2>1 DEF ActivePage
<1>6. ss.canvas.ready => \E p \in Range(ss.at.pages) : p.id = ActivePage(ss).id /\ p.src = ss.canvas.base
  BY <1>4, <1>5 DEF SsInv, SsSound, CanvasTrue
<1>7. QED
  BY <1>2, <1>3, <1>6 DEF Behind, Overtaken

(* The lists of a site and its canvas, as an invariant of their own: a list *)
(* no answer is going to invalidate is what the server has, and the list of *)
(* builds has one to wait for or is behind what the workers wrote since     *)
(* (invalidateQueries, refetchInterval, execute_job).                       *)
THEOREM StudioInvariant == SsSpec => []SsInv
<1>1. SsInit => SsInv
  BY SsInitInv
<1>2. SsInv /\ [SsNext]_ss => SsInv'
  BY SsNextInv
<1>3. QED
  BY <1>1, <1>2, PTL DEF SsSpec


-----------------------------------------------------------------------------
(* Columns.                                                                *)


(* Columns have numbers of their own, none above the last that was made.   *)
CfField(f) == f \in [id : {f.id}, order : {f.order}, name : {f.name}, opts : {f.opts}]
OwnNumbers(s) ==
    /\ IsFiniteSet(s.fields)
    /\ \A f \in s.fields : CfField(f) /\ f.id \in 1..s.made
    /\ \A f, g \in s.fields : f.id = g.id => f = g

(* A list of numbers of columns, each once.                                *)
EachOnce(ids, made) == ids \in Seq(1..made) /\ IsInjective(ids)

CfMessage(m) == m \in [nth : {m.nth}, do : {m.do}, step : {m.step}, ids : {m.ids}, names : {m.names},
                       id : {m.id}, name : {m.name}, opts : {m.opts}, target : {m.target}, side : {m.side},
                       from : {m.from}]
(* The names columns are made with.                                        *)
CfGiven == {"Untitled", "New", "Database", "Sub-item", "Parent item"}
CfRequest(m) == CfMessage(m) /\ m.names \in Seq(CfGiven)

(* The list of the click knows each column once, and the new one not yet.  *)
InsertKnows(m, made) ==
    m.do = "insert" => /\ EachOnce(m.ids, made)
                       /\ m.step = "created" => m.id \in (1..made) \ Range(m.ids)

CfShape(s) == s \in [fields : {s.fields}, made : Nat, shown : {s.shown}, fetch : {s.fetch},
                     panel : {s.panel}, drag : {s.drag}, net : {s.net}, sent : {s.sent}, ops : {s.ops}]

CfSound(s) ==
    /\ CfShape(s)
    /\ OwnNumbers(s)
    /\ EachOnce(Ids(s.shown), s.made)
    /\ s.fetch \notin {Closed, Asked} => EachOnce(Ids(s.fetch), s.made)
    /\ \A m \in s.net : CfRequest(m) /\ InsertKnows(m, s.made)

CfInv == CfSound(cf)


(* More columns: what was known of the numbers still holds.                *)
LEMMA MoreNumbers ==
    ASSUME NEW made \in Nat, NEW n \in Nat, made <= n
    PROVE  /\ \A ids : EachOnce(ids, made) => EachOnce(ids, n)
           /\ \A m : InsertKnows(m, made) => InsertKnows(m, n)
<1>1. 1..made \subseteq 1..n
  OBVIOUS
<1>2. \A ids : EachOnce(ids, made) => EachOnce(ids, n)
  BY <1>1 DEF EachOnce
<1>3. QED
  BY <1>1, <1>2 DEF InsertKnows

(* A listing of the columns.                                               *)
LEMMA FieldsListedOnce ==
    ASSUME NEW s, OwnNumbers(s), NEW l \in FieldListings(s.fields)
    PROVE  EachOnce(Ids(l), s.made)
<1> DEFINE n == Cardinality(s.fields)
<1>1. n \in Nat
  BY FS_CardinalityType DEF OwnNumbers
<1>2. l \in [1..n -> s.fields] /\ \A i, j \in 1..n : i # j => l[i] # l[j]
  BY DEF FieldListings, SetToSeqs
<1> HIDE DEF n
<1>3. \A i \in 1..n : l[i] \in s.fields
  BY <1>2
<1>4. Ids(l) = [i \in 1..n |-> l[i].id]
  BY <1>2 DEF Ids
<1>5. Ids(l) \in [1..n -> 1..s.made]
  BY <1>3, <1>4 DEF OwnNumbers
<1>6. Ids(l) \in Seq(1..s.made)
  BY <1>1, <1>5, SeqDef
<1>7. ASSUME NEW i \in 1..n, NEW j \in 1..n, Ids(l)[i] = Ids(l)[j] PROVE i = j
  BY <1>2, <1>3, <1>4, <1>7 DEF OwnNumbers
<1>8. DOMAIN Ids(l) = 1..n
  BY <1>4
<1>9. QED
  BY <1>6, <1>7, <1>8 DEF EachOnce, IsInjective

-----------------------------------------------------------------------------
(* What the user does changes no column.                                   *)
SameColumns(s, t) ==
    /\ CfShape(t) /\ t.fields = s.fields /\ t.made = s.made /\ t.shown = s.shown /\ t.fetch = s.fetch
Asking(s, m) == /\ CfRequest(m) /\ m.step = "sent" /\ (m.do = "insert" => m.ids = Ids(s.shown))

LEMMA AskingSound ==
    ASSUME NEW s, CfSound(s), NEW t, SameColumns(s, t),
           t.net = s.net \/ \E m : Asking(s, m) /\ t.net = s.net \cup {m}
    PROVE  CfSound(t)
<1>1. OwnNumbers(t) /\ EachOnce(Ids(t.shown), t.made)
      /\ (t.fetch \notin {Closed, Asked} => EachOnce(Ids(t.fetch), t.made)) /\ CfShape(t)
  BY DEF CfSound, SameColumns, OwnNumbers
<1>2. ASSUME NEW m, Asking(s, m) PROVE CfRequest(m) /\ InsertKnows(m, t.made)
  BY <1>2 DEF Asking, InsertKnows, CfSound, SameColumns
<1>3. \A m \in t.net : CfRequest(m) /\ InsertKnows(m, t.made)
  BY <1>2 DEF CfSound, SameColumns
<1>4. QED
  BY <1>1, <1>3 DEF CfSound

(* What the user sends is added to what is under way.                      *)
CfAsked == CfInv' /\ cf.net \subseteq cf'.net

LEMMA AsksSound ==
    ASSUME CfInv, NEW s, SameColumns(cf, s), s.net = cf.net, NEW m, Asking(cf, m), AsksServer(s, m)
    PROVE  CfAsked
<1> DEFINE t == [s EXCEPT !.ops = @ - 1, !.sent = @ + 1, !.net = @ \cup {m}]
<1>1. cf' = t
  BY DEF AsksServer
<1>2. SameColumns(cf, t) /\ t.net = cf.net \cup {m}
  BY DEF SameColumns, CfShape
<1> HIDE DEF t
<1>3. CfSound(t)
  BY <1>2, AskingSound DEF CfInv
<1>4. QED
  BY <1>1, <1>2, <1>3 DEF CfAsked, CfInv

(* A panel, a drag or a count is no column.                                *)
LEMMA PanelsAreNoColumns ==
    ASSUME NEW s, CfShape(s)
    PROVE  /\ SameColumns(s, s)
           /\ \A p : SameColumns(s, [s EXCEPT !.panel = p]) /\ [s EXCEPT !.panel = p].net = s.net
           /\ \A p : SameColumns(s, [s EXCEPT !.drag = p]) /\ [s EXCEPT !.drag = p].net = s.net
           /\ \A p, k : SameColumns(s, [s EXCEPT !.panel = p, !.ops = k])
                        /\ [s EXCEPT !.panel = p, !.ops = k].net = s.net
BY DEF SameColumns, CfShape

LEMMA ColumnsStaySound ==
    ASSUME CfInv, SameColumns(cf, cf'), cf'.net = cf.net
    PROVE  CfAsked
<1> DEFINE t == cf'
<1>1. SameColumns(cf, t) /\ t.net = cf.net
  OBVIOUS
<1> HIDE DEF t
<1>2. CfSound(t)
  BY <1>1, AskingSound DEF CfInv
<1>3. QED
  BY <1>1, <1>2 DEF CfAsked, CfInv, t

LEMMA SetsPanelSound ==
    ASSUME CfInv, \E p : cf' = [cf EXCEPT !.panel = p] \/ cf' = [cf EXCEPT !.drag = p]
                         \/ cf' = [cf EXCEPT !.panel = p, !.ops = @ - 1]
    PROVE  CfAsked
<1>1. CfShape(cf)
  BY DEF CfInv, CfSound
<1>2. PICK p : cf' = [cf EXCEPT !.panel = p] \/ cf' = [cf EXCEPT !.drag = p]
               \/ cf' = [cf EXCEPT !.panel = p, !.ops = @ - 1]
  OBVIOUS
<1>3. CASE cf' = [cf EXCEPT !.panel = p]
  BY <1>1, <1>3, PanelsAreNoColumns, ColumnsStaySound, ZenonT(40)
<1>4. CASE cf' = [cf EXCEPT !.drag = p]
  BY <1>1, <1>4, PanelsAreNoColumns, ColumnsStaySound, ZenonT(40)
<1>5. CASE cf' = [cf EXCEPT !.panel = p, !.ops = @ - 1]
  <2>1. SameColumns(cf, [cf EXCEPT !.panel = p, !.ops = cf.ops - 1])
        /\ [cf EXCEPT !.panel = p, !.ops = cf.ops - 1].net = cf.net
    BY <1>1 DEF SameColumns, CfShape
  <2>2. cf' = [cf EXCEPT !.panel = p, !.ops = cf.ops - 1]
    BY <1>5
  <2>3. QED
    BY <2>1, <2>2, ColumnsStaySound
<1>6. QED
  BY <1>2, <1>3, <1>4, <1>5

(* A request as it leaves the page.                                        *)
LEMMA RequestIs ==
    ASSUME NEW do
    PROVE  /\ CfMessage(Request(do)) /\ Request(do).do = do /\ Request(do).step = "sent"
           /\ Request(do).names = <<>>
<1> DEFINE r == Request(do)
<1>1. r = [nth |-> cf.sent, do |-> do, step |-> "sent", ids |-> <<>>, names |-> <<>>, id |-> NoField,
           name |-> Null, opts |-> Null, target |-> NoField, side |-> Null, from |-> Null]
  BY DEF Request
<1> HIDE DEF r
<1>2. CfMessage(r) /\ r.do = do /\ r.step = "sent" /\ r.names = <<>>
  BY <1>1 DEF CfMessage
<1>3. QED
  BY <1>2 DEF r

LEMMA PatchAsks ==
    ASSUME NEW i, NEW o, NEW n
    PROVE  /\ Asking(cf, [Request("patch") EXCEPT !.id = i, !.opts = o, !.name = n])
           /\ Asking(cf, [Request("patch") EXCEPT !.id = i, !.name = n, !.opts = o])
           /\ Asking(cf, [Request("patch") EXCEPT !.id = i, !.opts = o])
<1> DEFINE r == Request("patch")
<1>1. CfMessage(r) /\ r.do = "patch" /\ r.step = "sent" /\ r.names \in Seq(CfGiven)
  <2>1. CfMessage(r) /\ r.do = "patch" /\ r.step = "sent" /\ r.names = <<>>
    BY RequestIs, ZenonT(40)
  <2> HIDE DEF r
  <2>2. QED
    BY <2>1
<1> HIDE DEF r
<1>2. /\ Asking(cf, [r EXCEPT !.id = i, !.opts = o, !.name = n])
      /\ Asking(cf, [r EXCEPT !.id = i, !.name = n, !.opts = o])
      /\ Asking(cf, [r EXCEPT !.id = i, !.opts = o])
  BY <1>1 DEF Asking, CfRequest, CfMessage
<1>3. QED
  BY <1>2 DEF r

LEMMA ListAsks ==
    ASSUME NEW do, do # "insert", NEW ids, NEW from
    PROVE  /\ Asking(cf, [Request(do) EXCEPT !.ids = ids, !.from = from])
           /\ Asking(cf, [Request(do) EXCEPT !.ids = ids])
           /\ \A names \in Seq(CfGiven) : Asking(cf, [Request(do) EXCEPT !.names = names])
<1> DEFINE r == Request(do)
<1>1. CfMessage(r) /\ r.do = do /\ r.step = "sent" /\ r.names \in Seq(CfGiven)
  <2>1. CfMessage(r) /\ r.do = do /\ r.step = "sent" /\ r.names = <<>>
    BY RequestIs, ZenonT(40)
  <2> HIDE DEF r
  <2>2. QED
    BY <2>1
<1> HIDE DEF r
<1>2. /\ Asking(cf, [r EXCEPT !.ids = ids, !.from = from])
      /\ Asking(cf, [r EXCEPT !.ids = ids])
      /\ \A names \in Seq(CfGiven) : Asking(cf, [r EXCEPT !.names = names])
  BY <1>1 DEF Asking, CfRequest, CfMessage
<1>3. QED
  BY <1>2 DEF r

LEMMA InsertAsks ==
    ASSUME NEW side, NEW target
    PROVE  Asking(cf, [Request("insert") EXCEPT !.ids = Ids(cf.shown), !.side = side, !.target = target])
<1> DEFINE r == Request("insert")
           ids == Ids(cf.shown)
<1>1. CfMessage(r) /\ r.step = "sent" /\ r.names \in Seq(CfGiven)
  <2>1. CfMessage(r) /\ r.do = "insert" /\ r.step = "sent" /\ r.names = <<>>
    BY RequestIs, ZenonT(40)
  <2> HIDE DEF r
  <2>2. QED
    BY <2>1
<1> HIDE DEF r, ids
<1>2. Asking(cf, [r EXCEPT !.ids = ids, !.side = side, !.target = target])
  <2>1. CfRequest([r EXCEPT !.ids = ids, !.side = side, !.target = target])
    BY <1>1 DEF CfRequest, CfMessage
  <2>2. [r EXCEPT !.ids = ids, !.side = side, !.target = target].ids = ids
        /\ [r EXCEPT !.ids = ids, !.side = side, !.target = target].step = "sent"
    BY <1>1 DEF CfMessage
  <2>3. QED
    BY <2>1, <2>2 DEF Asking, ids
<1>3. QED
  BY <1>2 DEF r, ids

LEMMA CommitSound == \A p : CfInv /\ Commit(p) => CfAsked
<1> SUFFICES ASSUME CfInv, NEW p, Commit(p) PROVE CfAsked
  OBVIOUS
<1> DEFINE s == [cf EXCEPT !.panel = p]
           m == [Request("patch") EXCEPT !.id = p.field.id, !.opts = p.opts,
                                         !.name = IF p.name = "" THEN p.field.name ELSE p.name]
<1>1. AsksServer(s, m)
  BY DEF Commit
<1>2. CfShape(cf)
  BY DEF CfInv, CfSound
<1>3. Asking(cf, m)
  BY PatchAsks, ZenonT(40)
<1>4. SameColumns(cf, s) /\ s.net = cf.net
  BY <1>2, PanelsAreNoColumns
<1> HIDE DEF s, m
<1>5. QED
  BY <1>1, <1>3, <1>4, AsksSound

(* With the panel closed, the drag over, or the page as it was.            *)
LEMMA SendingSound ==
    ASSUME CfInv, NEW m, Asking(cf, m),
           \/ AsksServer(cf, m)
           \/ AsksServer([cf EXCEPT !.panel = Closed], m)
           \/ AsksServer([cf EXCEPT !.drag = Closed], m)
    PROVE  CfAsked
<1>1. CfShape(cf)
  BY DEF CfInv, CfSound
<1>2. /\ SameColumns(cf, cf)
      /\ SameColumns(cf, [cf EXCEPT !.panel = Closed]) /\ [cf EXCEPT !.panel = Closed].net = cf.net
      /\ SameColumns(cf, [cf EXCEPT !.drag = Closed]) /\ [cf EXCEPT !.drag = Closed].net = cf.net
  BY <1>1, PanelsAreNoColumns
<1>3. CASE AsksServer(cf, m)
  BY <1>2, <1>3, AsksSound
<1>4. CASE AsksServer([cf EXCEPT !.panel = Closed], m)
  BY <1>2, <1>4, AsksSound
<1>5. CASE AsksServer([cf EXCEPT !.drag = Closed], m)
  BY <1>2, <1>5, AsksSound
<1>6. QED
  BY <1>3, <1>4, <1>5

LEMMA ShortLists ==
    ASSUME NEW S, NEW a \in S, NEW b \in S
    PROVE  /\ <<a>> \in Seq(S) /\ Len(<<a>>) = 1
           /\ <<a, b>> \in Seq(S) /\ Len(<<a, b>>) = 2
OBVIOUS

LEMMA FormulaSound == CfInv /\ Formula => CfAsked
<1> SUFFICES ASSUME CfInv, Formula PROVE CfAsked
  OBVIOUS
<1>1. CfShape(cf)
  BY DEF CfInv, CfSound
<1>2. CASE OpenFormula
  <2>1. SameColumns(cf, cf') /\ cf'.net = cf.net
    BY <1>1, <1>2 DEF OpenFormula, SameColumns, CfShape
  <2>2. QED
    BY <2>1, ColumnsStaySound
<1>3. CASE TypeFormula
  <2>1. PICK t \in CfSets :
           cf' = [cf EXCEPT !.ops = @ - 1, !.panel.formula.text = t, !.panel.formula.due = TRUE]
    BY <1>3 DEF TypeFormula
  <2>2. SameColumns(cf, cf') /\ cf'.net = cf.net
    BY <1>1, <2>1 DEF SameColumns, CfShape
  <2>3. QED
    BY <2>2, ColumnsStaySound
<1>4. CASE TryFormula
  <2>1. PICK f : cf' = [cf EXCEPT !.panel.formula = f]
    BY <1>4 DEF TryFormula
  <2>2. SameColumns(cf, cf') /\ cf'.net = cf.net
    BY <1>1, <2>1 DEF SameColumns, CfShape
  <2>3. QED
    BY <2>2, ColumnsStaySound
<1>5. CASE ShowPreview
  <2>1. PICK t, p : cf' = [cf EXCEPT !.panel.formula.tried = @ \ {t}, !.panel.formula.preview = p]
    BY <1>5 DEF ShowPreview
  <2>2. SameColumns(cf, cf') /\ cf'.net = cf.net
    BY <1>1, <2>1 DEF SameColumns, CfShape
  <2>3. QED
    BY <2>2, ColumnsStaySound
<1>6. CASE SaveFormula
  BY <1>6, CommitSound DEF SaveFormula
<1>7. CASE CancelFormula
  <2>1. SameColumns(cf, cf') /\ cf'.net = cf.net
    BY <1>1, <1>7 DEF CancelFormula, SameColumns, CfShape
  <2>2. QED
    BY <2>1, ColumnsStaySound
<1>8. QED
  BY <1>2, <1>3, <1>4, <1>5, <1>6, <1>7 DEF Formula

(* What the user does.                                                     *)
LEMMA FieldUserSound == CfInv /\ FieldUser => CfAsked
<1> SUFFICES ASSUME CfInv, FieldUser PROVE CfAsked
  OBVIOUS
<1>1. CfShape(cf)
  BY DEF CfInv, CfSound
<1>2. CASE OpenMenu \/ OpenSettings \/ EditField \/ BackToFields \/ OpenForm \/ ClosePanel
  <2>1. \E p : cf' = [cf EXCEPT !.panel = p]
    BY <1>2 DEF OpenMenu, OpenSettings, EditField, BackToFields, OpenForm, ClosePanel
  <2>2. QED
    BY <2>1, SetsPanelSound
<1>3. CASE DragField \/ LetGo \/ StartResize
  <2>1. \E p : cf' = [cf EXCEPT !.drag = p]
    BY <1>3 DEF DragField, LetGo, StartResize
  <2>2. QED
    BY <2>1, SetsPanelSound
<1>4. CASE TypeName
  <2>1. PICK t \in CfNames : cf' = [cf EXCEPT !.panel.name = t, !.panel.typing = TRUE]
    BY <1>4 DEF TypeName
  <2>2. SameColumns(cf, cf') /\ cf'.net = cf.net
    BY <1>1, <2>1 DEF SameColumns, CfShape
  <2>3. QED
    BY <2>2, ColumnsStaySound
<1>5. CASE LeaveName \/ SetOption \/ EditChoices
  <2>1. \E p : Commit(p)
    BY <1>5 DEF LeaveName, SetOption, EditChoices
  <2>2. QED
    BY <2>1, CommitSound
<1>6. CASE Formula
  BY <1>6, FormulaSound
<1>7. CASE ToggleWrap
  <2>1. PICK i, o : AsksServer(cf, [Request("patch") EXCEPT !.id = i, !.opts = o])
    BY <1>7 DEF ToggleWrap
  <2>2. Asking(cf, [Request("patch") EXCEPT !.id = i, !.opts = o])
    BY PatchAsks, ZenonT(40)
  <2>3. QED
    BY <2>1, <2>2, SendingSound, ZenonT(40)
<1>8. CASE Insert
  <2>1. PICK side \in {"left", "right"} :
           AsksServer([cf EXCEPT !.panel = Closed],
                      [Request("insert") EXCEPT !.ids = Ids(cf.shown), !.side = side,
                                                !.target = cf.panel.field.id])
    BY <1>8 DEF Insert
  <2>2. Asking(cf, [Request("insert") EXCEPT !.ids = Ids(cf.shown), !.side = side,
                                             !.target = cf.panel.field.id])
    BY InsertAsks, ZenonT(40)
  <2>3. QED
    BY <2>1, <2>2, SendingSound, ZenonT(40)
<1>9. CASE DeleteField
  <2>1. PICK ids, at : AsksServer(cf, [Request("delete") EXCEPT !.ids = ids, !.from = at])
    BY <1>9 DEF DeleteField
  <2>2. Asking(cf, [Request("delete") EXCEPT !.ids = ids, !.from = at])
    <3>1. "delete" # "insert"
      OBVIOUS
    <3>2. QED
      BY <3>1, ListAsks, ZenonT(40)
  <2>3. QED
    BY <2>1, <2>2, SendingSound, ZenonT(40)
<1>10. CASE AddField
  <2>1. PICK names \in Seq(CfGiven) : AsksServer(cf, [Request("create") EXCEPT !.names = names])
    <3> DEFINE a == "New"
               b == "Database"
    <3>1. a \in CfGiven /\ b \in CfGiven
      BY DEF CfGiven
    <3>2. \E names \in {<<a>>, <<a, b>>} : AsksServer(cf, [Request("create") EXCEPT !.names = names])
      BY <1>10 DEF AddField
    <3> HIDE DEF a, b
    <3>3. <<a>> \in Seq(CfGiven) /\ <<a, b>> \in Seq(CfGiven)
      BY <3>1, ShortLists
    <3>4. QED
      BY <3>2, <3>3
  <2>2. Asking(cf, [Request("create") EXCEPT !.names = names])
    <3>1. "create" # "insert"
      OBVIOUS
    <3>2. QED
      BY <3>1, ListAsks, ZenonT(40)
  <2>3. QED
    BY <2>1, <2>2, SendingSound, ZenonT(40)
<1>11. CASE DropField
  <2>1. PICK ids : AsksServer([cf EXCEPT !.drag = Closed], [Request("reorder") EXCEPT !.ids = ids])
    BY <1>11 DEF DropField
  <2>2. Asking(cf, [Request("reorder") EXCEPT !.ids = ids])
    <3>1. "reorder" # "insert"
      OBVIOUS
    <3>2. QED
      BY <3>1, ListAsks, ZenonT(40)
  <2>3. QED
    BY <2>1, <2>2, SendingSound, ZenonT(40)
<1>12. CASE EndResize
  <2>1. PICK i, n, o : AsksServer([cf EXCEPT !.drag = Closed],
                                  [Request("patch") EXCEPT !.id = i, !.name = n, !.opts = o])
    BY <1>12 DEF EndResize
  <2>2. Asking(cf, [Request("patch") EXCEPT !.id = i, !.name = n, !.opts = o])
    BY PatchAsks, ZenonT(40)
  <2>3. QED
    BY <2>1, <2>2, SendingSound, ZenonT(40)
<1>13. CASE ToggleSubItems
  <2>1. CASE AsksServer(cf, [Request("sub") EXCEPT !.names = <<"Sub-item", "Parent item">>])
    <3> DEFINE a == "Sub-item"
               b == "Parent item"
    <3>1. "sub" # "insert" /\ a \in CfGiven /\ b \in CfGiven
      BY DEF CfGiven
    <3>2. Asking(cf, [Request("sub") EXCEPT !.names = <<"Sub-item", "Parent item">>])
      <4> HIDE DEF a, b
      <4>1. <<a, b>> \in Seq(CfGiven)
        BY <3>1, ShortLists
      <4>2. Asking(cf, [Request("sub") EXCEPT !.names = <<a, b>>])
        BY <3>1, <4>1, ListAsks, ZenonT(40)
      <4>3. QED
        BY <4>2 DEF a, b
    <3>3. QED
      BY <2>1, <3>2, SendingSound, ZenonT(40)
  <2>2. CASE \E ids : AsksServer(cf, [Request("delete") EXCEPT !.ids = ids, !.from = "toggle"])
    <3>1. PICK ids : AsksServer(cf, [Request("delete") EXCEPT !.ids = ids, !.from = "toggle"])
      BY <2>2
    <3>2. "delete" # "insert"
      OBVIOUS
    <3>3. Asking(cf, [Request("delete") EXCEPT !.ids = ids, !.from = "toggle"])
      BY <3>2, ListAsks, ZenonT(40)
    <3>4. QED
      BY <3>1, <3>3, SendingSound, ZenonT(40)
  <2>3. QED
    BY <1>13, <2>1, <2>2 DEF ToggleSubItems
<1>14. QED
  BY <1>2, <1>3, <1>4, <1>5, <1>6, <1>7, <1>8, <1>9, <1>10, <1>11, <1>12, <1>13 DEF FieldUser


-----------------------------------------------------------------------------
(* What the server does, and what comes back.                              *)

(* The list is another one, or asked for again.                            *)
LEMMA ListsSound ==
    ASSUME CfInv, CfShape(cf'), cf'.fields = cf.fields, cf'.made = cf.made, cf'.net \subseteq cf.net,
           EachOnce(Ids(cf'.shown), cf.made),
           cf'.fetch \notin {Closed, Asked} => EachOnce(Ids(cf'.fetch), cf.made)
    PROVE  CfInv'
<1> DEFINE t == cf'
<1>1. /\ CfShape(t) /\ t.fields = cf.fields /\ t.made = cf.made /\ t.net \subseteq cf.net
      /\ EachOnce(Ids(t.shown), cf.made)
      /\ t.fetch \notin {Closed, Asked} => EachOnce(Ids(t.fetch), cf.made)
  OBVIOUS
<1> HIDE DEF t
<1>2. CfSound(t)
  BY <1>1 DEF CfInv, CfSound, OwnNumbers
<1>3. QED
  BY <1>2 DEF CfInv, t

LEMMA ServeFieldsSound == CfInv /\ ServeFields => CfInv'
<1> SUFFICES ASSUME CfInv, ServeFields PROVE CfInv'
  OBVIOUS
<1>1. PICK l \in FieldListings(cf.fields) : cf' = [cf EXCEPT !.fetch = l]
  BY DEF ServeFields
<1>2. EachOnce(Ids(l), cf.made)
  BY FieldsListedOnce DEF CfInv, CfSound
<1>3. /\ CfShape(cf') /\ cf'.fields = cf.fields /\ cf'.made = cf.made /\ cf'.net = cf.net
      /\ cf'.shown = cf.shown /\ cf'.fetch = l
  BY <1>1 DEF CfInv, CfSound, CfShape
<1>4. QED
  BY <1>2, <1>3, ListsSound DEF CfInv, CfSound

LEMMA FieldsArriveSound == CfInv /\ FieldsArrive => CfInv'
<1> SUFFICES ASSUME CfInv, FieldsArrive PROVE CfInv'
  OBVIOUS
<1>1. cf.fetch \notin {Closed, Asked}
  BY DEF FieldsArrive
<1>2. PICK p : cf' = [cf EXCEPT !.shown = cf.fetch, !.fetch = Closed, !.panel = p]
  BY DEF FieldsArrive
<1>3. /\ CfShape(cf') /\ cf'.fields = cf.fields /\ cf'.made = cf.made /\ cf'.net = cf.net
      /\ cf'.shown = cf.fetch /\ cf'.fetch = Closed
  BY <1>2 DEF CfInv, CfSound, CfShape
<1>4. EachOnce(Ids(cf.fetch), cf.made)
  BY <1>1 DEF CfInv, CfSound
<1>5. QED
  BY <1>3, <1>4, ListsSound

(* A request is carried out; the others stay as they are.                  *)
CfHandled(m) == CfInv' /\ cf.net \ {m} \subseteq cf'.net

LEMMA FieldAnsweredSound == \A m \in cf.net : CfInv /\ FieldAnswered(m) => CfHandled(m)
<1> SUFFICES ASSUME NEW m \in cf.net, CfInv, FieldAnswered(m) PROVE CfHandled(m)
  OBVIOUS
<1> DEFINE got == [cf EXCEPT !.net = @ \ {m}]
<1>1. /\ CfShape(got) /\ got.fields = cf.fields /\ got.made = cf.made /\ got.net = cf.net \ {m}
      /\ got.shown = cf.shown /\ got.fetch = cf.fetch
  BY DEF CfInv, CfSound, CfShape
<1>2. m.step = "failed" \/ m.step = "done"
  BY DEF FieldAnswered, Done
<1>3. \/ cf' = got
      \/ cf' = FieldsInvalidated(got)
      \/ \E p : cf' = FieldsInvalidated([got EXCEPT !.panel = p])
  BY <1>2 DEF FieldAnswered
<1> HIDE DEF got
<1>4. /\ CfShape(cf') /\ cf'.fields = cf.fields /\ cf'.made = cf.made /\ cf'.net = cf.net \ {m}
      /\ cf'.shown = cf.shown /\ cf'.fetch \in {cf.fetch, Asked}
  <2>1. CASE cf' = got
    BY <1>1, <2>1
  <2>2. CASE cf' = FieldsInvalidated(got)
    BY <1>1, <2>2 DEF FieldsInvalidated, CfShape
  <2>3. ASSUME NEW p, cf' = FieldsInvalidated([got EXCEPT !.panel = p])
        PROVE  /\ CfShape(cf') /\ cf'.fields = cf.fields /\ cf'.made = cf.made /\ cf'.net = cf.net \ {m}
               /\ cf'.shown = cf.shown /\ cf'.fetch \in {cf.fetch, Asked}
    BY <1>1, <2>3 DEF FieldsInvalidated, CfShape
  <2>4. QED
    BY <1>3, <2>1, <2>2, <2>3
<1>5. EachOnce(Ids(cf'.shown), cf.made)
  BY <1>4 DEF CfInv, CfSound
<1>6. cf'.fetch \notin {Closed, Asked} => EachOnce(Ids(cf'.fetch), cf.made)
  BY <1>4 DEF CfInv, CfSound
<1>7. cf'.net \subseteq cf.net
  BY <1>4
<1>8. CfInv'
  BY <1>4, <1>5, <1>6, <1>7, ListsSound
<1>9. QED
  BY <1>4, <1>8 DEF CfHandled

(* Columns that are written keep their numbers.                            *)
LEMMA SameNumbers ==
    ASSUME NEW s, OwnNumbers(s), NEW g, DOMAIN g = s.fields,
           \A f \in s.fields : CfField(g[f]) /\ g[f].id = f.id,
           NEW t, t.fields = {g[f] : f \in s.fields}, t.made = s.made
    PROVE  OwnNumbers(t)
<1>1. IsFiniteSet(t.fields)
  BY FiniteImage DEF OwnNumbers
<1>2. QED
  BY <1>1 DEF OwnNumbers

LEMMA UpdatedNumbers ==
    ASSUME NEW s, OwnNumbers(s), NEW m, NEW t, t.fields = FieldUpdated(s.fields, m), t.made = s.made
    PROVE  OwnNumbers(t)
<1> DEFINE g == [f \in s.fields |->
                   IF f.id = m.id THEN [f EXCEPT !.name = IF m.name = Null THEN @ ELSE m.name, !.opts = m.opts]
                   ELSE f]
<1>1. t.fields = {g[f] : f \in s.fields} /\ DOMAIN g = s.fields
  BY DEF FieldUpdated
<1>2. ASSUME NEW f \in s.fields PROVE CfField(g[f]) /\ g[f].id = f.id
  BY DEF OwnNumbers, CfField
<1> HIDE DEF g
<1>3. QED
  BY <1>1, <1>2, SameNumbers

LEMMA ReorderedNumbers ==
    ASSUME NEW s, OwnNumbers(s), NEW ids, NEW t, t.fields = FieldsReordered(s.fields, ids), t.made = s.made
    PROVE  OwnNumbers(t)
<1> DEFINE g == [f \in s.fields |->
                   IF f.id \in Range(ids) THEN [f EXCEPT !.order = (CHOOSE i \in DOMAIN ids : ids[i] = f.id) - 1]
                   ELSE f]
<1>1. t.fields = {g[f] : f \in s.fields} /\ DOMAIN g = s.fields
  BY DEF FieldsReordered
<1>2. ASSUME NEW f \in s.fields PROVE CfField(g[f]) /\ g[f].id = f.id
  BY DEF OwnNumbers, CfField
<1> HIDE DEF g
<1>3. QED
  BY <1>1, <1>2, SameNumbers

(* New columns get the next numbers.                                       *)
LEMMA CreatedNumbers ==
    ASSUME NEW s, CfShape(s), OwnNumbers(s), NEW names \in Seq(CfGiven), NEW opts,
           NEW t, t = FieldsCreated(s, names, opts)
    PROVE  /\ CfShape(t) /\ OwnNumbers(t) /\ t.made = s.made + Len(names) /\ t.made \in Nat
           /\ t.shown = s.shown /\ t.fetch = s.fetch /\ t.net = s.net
<1> DEFINE n == Len(names)
           g == [k \in 1..n |-> [id |-> s.made + k, order |-> NextPlace(s.fields) + k - 1,
                                 name |-> names[k], opts |-> opts]]
           new == {g[k] : k \in 1..n}
<1>1. n \in Nat /\ DOMAIN names = 1..n /\ s.made \in Nat
  BY LenProperties DEF CfShape
<1>2. t = [s EXCEPT !.fields = @ \cup new, !.made = @ + n]
  BY <1>1 DEF FieldsCreated
<1>3. IsFiniteSet(new)
  <2>1. IsFiniteSet(1..n)
    BY <1>1, FS_Interval
  <2>2. DOMAIN g = 1..n
    OBVIOUS
  <2> HIDE DEF g, n
  <2>3. QED
    BY <2>1, <2>2, FiniteImage
<1>4. \A k \in 1..n : CfField(g[k]) /\ g[k].id = s.made + k
  BY DEF CfField
<1> HIDE DEF g, n
<1>5. \A f \in new : CfField(f) /\ f.id \in (s.made + 1)..(s.made + n)
  BY <1>1, <1>4
<1>6. \A f, h \in new : f.id = h.id => f = h
  <2>1. ASSUME NEW i \in 1..n, NEW j \in 1..n, g[i].id = g[j].id PROVE i = j
    BY <1>1, <1>4, <2>1
  <2>2. QED
    BY <2>1
<1> HIDE DEF new
<1>7. /\ CfShape(t) /\ t.fields = s.fields \cup new /\ t.made = s.made + n
      /\ t.shown = s.shown /\ t.fetch = s.fetch /\ t.net = s.net
  <2> DEFINE all == s.fields \cup new
             k == s.made + n
  <2>1. k \in Nat /\ t = [s EXCEPT !.fields = all, !.made = k]
    BY <1>1, <1>2
  <2> HIDE DEF all, k
  <2>2. /\ CfShape(t) /\ t.fields = all /\ t.made = k
        /\ t.shown = s.shown /\ t.fetch = s.fetch /\ t.net = s.net
    BY <2>1 DEF CfShape
  <2>3. QED
    BY <2>2 DEF all, k
<1>8. IsFiniteSet(t.fields)
  <2>1. IsFiniteSet(s.fields)
    BY DEF OwnNumbers
  <2>2. IsFiniteSet(s.fields \cup new)
    BY <1>3, <2>1, FS_Union, ZenonT(40)
  <2>3. QED
    BY <1>7, <2>2
<1>9. ASSUME NEW f \in t.fields PROVE CfField(f) /\ f.id \in 1..t.made
  BY <1>1, <1>5, <1>7, <1>9 DEF OwnNumbers
<1>10. ASSUME NEW f \in t.fields, NEW h \in t.fields, f.id = h.id PROVE f = h
  <2>1. \A x \in s.fields : x.id \in 1..s.made
    BY DEF OwnNumbers
  <2>2. CASE f \in s.fields /\ h \in s.fields
    BY <1>10, <2>2 DEF OwnNumbers
  <2>3. CASE f \in new /\ h \in new
    BY <1>6, <1>10, <2>3
  <2>4. CASE (f \in s.fields /\ h \in new) \/ (f \in new /\ h \in s.fields)
    BY <1>1, <1>5, <1>10, <2>1, <2>4
  <2>5. QED
    BY <1>7, <2>2, <2>3, <2>4
<1>11. QED
  BY <1>1, <1>7, <1>8, <1>9, <1>10 DEF OwnNumbers, n


LEMMA OneCreated ==
    ASSUME NEW s, CfShape(s), OwnNumbers(s), NEW opts, NEW name \in CfGiven,
           NEW t, t = FieldsCreated(s, <<name>>, opts)
    PROVE  /\ CfShape(t) /\ OwnNumbers(t) /\ t.made = s.made + 1 /\ t.made \in Nat
           /\ t.shown = s.shown /\ t.fetch = s.fetch /\ t.net = s.net
<1>1. PICK names : names = <<name>>
  OBVIOUS
<1>2. names \in Seq(CfGiven) /\ Len(names) = 1
  BY <1>1, ShortLists
<1>3. t = FieldsCreated(s, names, opts)
  BY <1>1
<1>4. CfShape(s) /\ OwnNumbers(s) /\ names \in Seq(CfGiven)
  BY <1>2
<1>5. /\ CfShape(t) /\ OwnNumbers(t) /\ t.made = s.made + Len(names) /\ t.made \in Nat
      /\ t.shown = s.shown /\ t.fetch = s.fetch /\ t.net = s.net
  BY <1>3, <1>4, CreatedNumbers
<1>6. QED
  BY <1>2, <1>5

(* A request that is carried out.                                          *)
LEMMA HandledRequest ==
    ASSUME CfInv, NEW m \in cf.net, NEW h, CfRequest(h), NEW s, CfShape(s), OwnNumbers(s), cf.made <= s.made,
           s.shown = cf.shown, s.fetch = cf.fetch, s.net = cf.net, InsertKnows(h, s.made),
           cf' = [s EXCEPT !.net = (@ \ {m}) \cup {h}]
    PROVE  CfHandled(m)
<1> DEFINE t == cf'
<1>1. /\ CfShape(t) /\ t.fields = s.fields /\ t.made = s.made /\ t.shown = cf.shown /\ t.fetch = cf.fetch
      /\ t.net = (cf.net \ {m}) \cup {h}
  BY DEF CfShape
<1>2. cf.made \in Nat /\ s.made \in Nat
  BY DEF CfInv, CfSound, CfShape
<1> HIDE DEF t
<1>3. /\ \A ids : EachOnce(ids, cf.made) => EachOnce(ids, s.made)
      /\ \A r : InsertKnows(r, cf.made) => InsertKnows(r, s.made)
  BY <1>2, MoreNumbers
<1>4. OwnNumbers(t)
  BY <1>1 DEF OwnNumbers
<1>5. EachOnce(Ids(t.shown), t.made) /\ (t.fetch \notin {Closed, Asked} => EachOnce(Ids(t.fetch), t.made))
  BY <1>1, <1>3 DEF CfInv, CfSound
<1>6. \A r \in t.net : CfRequest(r) /\ InsertKnows(r, t.made)
  BY <1>1, <1>3 DEF CfInv, CfSound
<1>7. CfSound(t)
  BY <1>1, <1>4, <1>5, <1>6 DEF CfSound
<1>8. QED
  BY <1>1, <1>7 DEF CfHandled, CfInv, t

LEMMA NextStep ==
    ASSUME NEW m, CfRequest(m), NEW step
    PROVE  /\ CfRequest([m EXCEPT !.step = step])
           /\ \A made : step # "created" /\ InsertKnows(m, made) => InsertKnows([m EXCEPT !.step = step], made)
<1> DEFINE h == [m EXCEPT !.step = step]
<1>1. CfRequest(h) /\ h.step = step /\ h.do = m.do /\ h.ids = m.ids
  BY DEF CfRequest, CfMessage
<1> HIDE DEF h
<1>2. \A made : step # "created" /\ InsertKnows(m, made) => InsertKnows(h, made)
  BY <1>1 DEF InsertKnows
<1>3. QED
  BY <1>1, <1>2 DEF h

LEMMA BecomesSound ==
    ASSUME CfInv, NEW m \in cf.net, NEW step, step # "created", NEW s, CfShape(s), OwnNumbers(s),
           cf.made <= s.made, s.shown = cf.shown, s.fetch = cf.fetch, s.net = cf.net, Becomes(m, step, s)
    PROVE  CfHandled(m)
<1> DEFINE h == [m EXCEPT !.step = step]
<1>1. CfRequest(m) /\ InsertKnows(m, cf.made) /\ cf.made \in Nat /\ s.made \in Nat
  BY DEF CfInv, CfSound, CfShape
<1>2. InsertKnows(m, s.made)
  BY <1>1, MoreNumbers
<1>3. CfRequest(h) /\ InsertKnows(h, s.made)
  BY <1>1, <1>2, NextStep
<1>4. cf' = [s EXCEPT !.net = (@ \ {m}) \cup {h}]
  BY DEF Becomes
<1> HIDE DEF h
<1>5. QED
  BY <1>3, <1>4, HandledRequest

(* The columns are written, no more.                                       *)
LEMMA WritesSound ==
    ASSUME CfInv, NEW m \in cf.net, NEW step, step # "created", NEW fields,
           \A t : t.fields = fields /\ t.made = cf.made => OwnNumbers(t),
           Becomes(m, step, [cf EXCEPT !.fields = fields])
    PROVE  CfHandled(m)
<1> DEFINE s == [cf EXCEPT !.fields = fields]
<1>1. /\ CfShape(s) /\ s.fields = fields /\ s.made = cf.made /\ cf.made <= s.made
      /\ s.shown = cf.shown /\ s.fetch = cf.fetch /\ s.net = cf.net
  BY DEF CfInv, CfSound, CfShape
<1>2. Becomes(m, step, s)
  OBVIOUS
<1> HIDE DEF s
<1>3. OwnNumbers(s)
  BY <1>1
<1>4. QED
  BY <1>1, <1>2, <1>3, BecomesSound

LEMMA FailsSound ==
    ASSUME CfInv, NEW m \in cf.net, Becomes(m, "failed", cf)
    PROVE  CfHandled(m)
<1>1. "failed" # "created" /\ CfShape(cf) /\ OwnNumbers(cf) /\ cf.made <= cf.made
  BY DEF CfInv, CfSound, CfShape
<1>2. QED
  BY <1>1, BecomesSound

LEMMA CreatesSound ==
    ASSUME CfInv, NEW m \in cf.net, NEW opts, Becomes(m, "done", FieldsCreated(cf, m.names, opts))
    PROVE  CfHandled(m)
<1> DEFINE s == FieldsCreated(cf, m.names, opts)
<1>1. m.names \in Seq(CfGiven) /\ CfShape(cf) /\ OwnNumbers(cf)
  BY DEF CfInv, CfSound, CfRequest
<1>2. Becomes(m, "done", s) /\ s = FieldsCreated(cf, m.names, opts)
  OBVIOUS
<1> HIDE DEF s
<1>3. /\ CfShape(s) /\ OwnNumbers(s) /\ s.made = cf.made + Len(m.names)
      /\ s.shown = cf.shown /\ s.fetch = cf.fetch /\ s.net = cf.net
  BY <1>1, <1>2, CreatedNumbers
<1>4. cf.made <= s.made
  BY <1>1, <1>3, LenProperties DEF CfShape
<1>5. "done" # "created"
  OBVIOUS
<1>6. QED
  BY <1>2, <1>3, <1>4, <1>5, BecomesSound

LEMMA DeleteFieldsSound == \A m \in cf.net : CfInv /\ DeleteFields(m) => CfHandled(m)
<1> SUFFICES ASSUME NEW m \in cf.net, CfInv, DeleteFields(m) PROVE CfHandled(m)
  OBVIOUS
<1>1. PICK i \in DOMAIN m.ids :
        LET left == {f \in cf.fields : f.id # m.ids[i]}
        IN cf' = [cf EXCEPT !.fields = left,
                            !.net = (@ \ {m}) \cup
                               {[m EXCEPT !.ids = RemoveAt(@, i),
                                          !.step = IF left = cf.fields \/ @ = "failed" THEN "failed" ELSE "done"]}]
  BY DEF DeleteFields
<1> DEFINE left == {f \in cf.fields : f.id # m.ids[i]}
           step == IF left = cf.fields \/ m.step = "failed" THEN "failed" ELSE "done"
           h == [m EXCEPT !.ids = RemoveAt(m.ids, i), !.step = step]
           s == [cf EXCEPT !.fields = left]
<1>2. cf' = [cf EXCEPT !.fields = left, !.net = (cf.net \ {m}) \cup {h}]
  BY <1>1
<1>3. CfRequest(m) /\ m.do = "delete"
  BY DEF CfInv, CfSound, DeleteFields
<1>4. CfRequest(h) /\ h.do = "delete"
  BY <1>3 DEF CfRequest, CfMessage
<1> HIDE DEF h
<1>5. InsertKnows(h, cf.made)
  BY <1>4 DEF InsertKnows
<1>6. left \subseteq cf.fields
  OBVIOUS
<1> HIDE DEF left
<1>7. /\ CfShape(s) /\ s.fields = left /\ s.made = cf.made /\ cf.made <= s.made
      /\ s.shown = cf.shown /\ s.fetch = cf.fetch /\ s.net = cf.net
      /\ cf' = [s EXCEPT !.net = (@ \ {m}) \cup {h}]
  BY <1>2 DEF CfInv, CfSound, CfShape
<1> HIDE DEF s
<1>8. OwnNumbers(s)
  BY <1>6, <1>7, FS_Subset DEF CfInv, CfSound, OwnNumbers
<1>9. QED
  BY <1>4, <1>5, <1>7, <1>8, HandledRequest

LEMMA InsertCreatesSound == \A m \in cf.net : CfInv /\ InsertCreates(m) => CfHandled(m)
<1> SUFFICES ASSUME NEW m \in cf.net, CfInv, InsertCreates(m) PROVE CfHandled(m)
  OBVIOUS
<1> DEFINE s == FieldsCreated(cf, <<"Untitled">>, Plain)
           h == [m EXCEPT !.step = "created", !.id = s.made]
<1>1. cf' = [s EXCEPT !.net = (@ \ {m}) \cup {h}] /\ m.do = "insert"
  BY DEF InsertCreates
<1>2. CfShape(cf) /\ OwnNumbers(cf) /\ CfRequest(m) /\ InsertKnows(m, cf.made) /\ cf.made \in Nat
  BY DEF CfInv, CfSound, CfShape
<1>3. s = FieldsCreated(cf, <<"Untitled">>, Plain)
  OBVIOUS
<1> HIDE DEF s
<1>4. /\ CfShape(s) /\ OwnNumbers(s) /\ s.made = cf.made + 1 /\ s.made \in Nat
      /\ s.shown = cf.shown /\ s.fetch = cf.fetch /\ s.net = cf.net
  <2>1. "Untitled" \in CfGiven
    BY DEF CfGiven
  <2>2. PICK name, o : name \in CfGiven /\ s = FieldsCreated(cf, <<name>>, o)
    BY <1>3, <2>1, ZenonT(40)
  <2>3. QED
    BY <1>2, <2>2, OneCreated
<1>5. CfRequest(h) /\ h.do = "insert" /\ h.ids = m.ids /\ h.id = s.made
  BY <1>1, <1>2 DEF CfRequest, CfMessage
<1> HIDE DEF h
<1>6. EachOnce(m.ids, cf.made)
  BY <1>1, <1>2 DEF InsertKnows
<1>7. EachOnce(m.ids, s.made)
  BY <1>2, <1>4, <1>6, MoreNumbers
<1>8. s.made \notin Range(m.ids)
  <2>1. m.ids \in Seq(1..cf.made) /\ DOMAIN m.ids = 1..Len(m.ids)
    BY <1>6, LenProperties DEF EachOnce
  <2>2. \A i \in DOMAIN m.ids : m.ids[i] \in 1..cf.made
    BY <2>1, ElementOfSeq
  <2>3. QED
    BY <1>2, <1>4, <2>2 DEF Range
<1>9. InsertKnows(h, s.made)
  BY <1>2, <1>4, <1>5, <1>7, <1>8 DEF InsertKnows
<1>10. QED
  BY <1>1, <1>2, <1>4, <1>5, <1>9, HandledRequest


LEMMA FieldRequestSound == \A m \in cf.net : CfInv /\ FieldRequest(m) => CfHandled(m)
<1> SUFFICES ASSUME NEW m \in cf.net, CfInv, FieldRequest(m) PROVE CfHandled(m)
  OBVIOUS
<1>1. OwnNumbers(cf) /\ "done" # "created"
  BY DEF CfInv, CfSound
<1>2. CASE CreateFields(m)
  BY <1>2, CreatesSound DEF CreateFields
<1>3. CASE EnableSubItems(m)
  BY <1>3, CreatesSound, FailsSound DEF EnableSubItems
<1>4. CASE UpdateField(m)
  <2>1. \A t : t.fields = FieldUpdated(cf.fields, m) /\ t.made = cf.made => OwnNumbers(t)
    BY <1>1, UpdatedNumbers
  <2>2. CASE Becomes(m, "failed", cf)
    BY <2>2, FailsSound
  <2>3. CASE Becomes(m, "done", [cf EXCEPT !.fields = FieldUpdated(@, m)])
    BY <1>1, <2>1, <2>3, WritesSound
  <2>4. QED
    BY <1>4, <2>2, <2>3 DEF UpdateField
<1>5. CASE DeleteFields(m)
  BY <1>5, DeleteFieldsSound
<1>6. CASE ReorderFields(m)
  <2>1. \A t : t.fields = FieldsReordered(cf.fields, m.ids) /\ t.made = cf.made => OwnNumbers(t)
    BY <1>1, ReorderedNumbers
  <2>2. Becomes(m, "done", [cf EXCEPT !.fields = FieldsReordered(@, m.ids)])
    BY <1>6 DEF ReorderFields
  <2>3. QED
    BY <1>1, <2>1, <2>2, WritesSound
<1>7. CASE InsertCreates(m)
  BY <1>7, InsertCreatesSound
<1>8. CASE InsertPlaces(m)
  <2> DEFINE ids == InsertedInto(m)
  <2>1. Becomes(m, "done", [cf EXCEPT !.fields = FieldsReordered(@, ids)])
    BY <1>8 DEF InsertPlaces
  <2> HIDE DEF ids
  <2>2. \A t : t.fields = FieldsReordered(cf.fields, ids) /\ t.made = cf.made => OwnNumbers(t)
    BY <1>1, ReorderedNumbers
  <2>3. QED
    BY <1>1, <2>1, <2>2, WritesSound
<1>9. CASE FieldAnswered(m)
  BY <1>9, FieldAnsweredSound
<1>10. QED
  BY <1>2, <1>3, <1>4, <1>5, <1>6, <1>7, <1>8, <1>9 DEF FieldRequest

LEMMA CfInitInv == CfInit => CfInv
<1> SUFFICES ASSUME CfInit PROVE CfInv
  OBVIOUS
<1> DEFINE g == FirstFields
           n == CfStart
<1>1. n \in Nat
  BY CfAssumption
<1>2. /\ DOMAIN g = 1..n
      /\ \A k \in 1..n : CfField(g[k]) /\ g[k].id = k
  BY DEF FirstFields, CfField
<1>3. Ids(g) = [k \in 1..n |-> k]
  BY <1>2 DEF Ids
<1>4. /\ CfShape(cf) /\ cf.fields = Range(g) /\ cf.made = n /\ cf.shown = g /\ cf.fetch = Closed
      /\ cf.net = {}
  BY <1>1 DEF CfInit, CfShape
<1> HIDE DEF g, n
<1>5. EachOnce(Ids(g), n)
  <2>1. Ids(g) \in [1..n -> 1..n] /\ DOMAIN Ids(g) = 1..n
    BY <1>3
  <2>2. Ids(g) \in Seq(1..n)
    BY <1>1, <2>1, SeqDef
  <2>3. QED
    BY <1>3, <2>1, <2>2 DEF EachOnce, IsInjective
<1>6. OwnNumbers(cf)
  <2>1. Range(g) = {g[k] : k \in 1..n}
    BY <1>2 DEF Range
  <2>2. IsFiniteSet(Range(g))
    <3>1. IsFiniteSet(1..n)
      BY <1>1, FS_Interval
    <3>2. DOMAIN g = 1..n
      BY <1>2
    <3>3. IsFiniteSet({g[k] : k \in 1..n})
      BY <3>1, <3>2, FiniteImage, ZenonT(40)
    <3>4. QED
      BY <2>1, <3>3
  <2>3. QED
    BY <1>2, <1>4, <2>1, <2>2 DEF OwnNumbers
<1>7. QED
  BY <1>4, <1>5, <1>6 DEF CfInv, CfSound

LEMMA CfNextInv == CfInv /\ [CfNext]_cf => CfInv'
<1> SUFFICES ASSUME CfInv, [CfNext]_cf PROVE CfInv'
  OBVIOUS
<1>1. CASE FieldUser
  BY <1>1, FieldUserSound DEF CfAsked
<1>2. CASE ServeFields
  BY <1>2, ServeFieldsSound
<1>3. CASE FieldsArrive
  BY <1>3, FieldsArriveSound
<1>4. CASE \E m \in cf.net : FieldRequest(m)
  BY <1>4, FieldRequestSound DEF CfHandled
<1>5. CASE UNCHANGED cf
  BY <1>5 DEF CfInv
<1>6. QED
  BY <1>1, <1>2, <1>3, <1>4, <1>5 DEF CfNext

(* The columns keep numbers of their own, and no insertion puts one twice  *)
(* into the list of its click (insertField, create_field, reorder_fields). *)
THEOREM ColumnsInvariant == CfSpec => []CfInv
<1>1. CfInit => CfInv
  BY CfInitInv
<1>2. CfInv /\ [CfNext]_cf => CfInv'
  BY CfNextInv
<1>3. QED
  BY <1>1, <1>2, PTL DEF CfSpec


-----------------------------------------------------------------------------
(* An inserted column gets its place.                                      *)

(* Only its second request ends an insertion that has its column.          *)
LEMMA InsertionEnds ==
    ASSUME CfInv, CfNext, NEW m \in cf.net, m.do = "insert", m.step = "created", m \notin cf'.net
    PROVE  InsertPlaces(m)
<1>1. ~FieldUser
  BY FieldUserSound DEF CfAsked
<1>2. ~ServeFields /\ ~FieldsArrive
  BY DEF ServeFields, FieldsArrive, CfInv, CfSound, CfShape
<1>3. PICK r \in cf.net : FieldRequest(r)
  BY <1>1, <1>2 DEF CfNext
<1>4. m = r
  BY <1>3, FieldRequestSound DEF CfHandled
<1>5. QED
  BY <1>3, <1>4 DEF FieldRequest, CreateFields, EnableSubItems, UpdateField, DeleteFields, ReorderFields,
                    InsertCreates, FieldAnswered, Done

(* Columns that all get the index they have in a list stand as in the list. *)
LEMMA ListedDirectly ==
    ASSUME NEW s, OwnNumbers(s), NEW l, EachOnce(l, s.made), s.made \in Nat,
           \A f \in s.fields : f.id \in Range(l),
           NEW k \in DOMAIN l, k + 1 \in DOMAIN l,
           NEW f \in s.fields, f.id = l[k], NEW g \in s.fields, g.id = l[k + 1]
    PROVE  Directly(FieldsReordered(s.fields, l), l[k], l[k + 1])
<1> DEFINE at(id) == CHOOSE i \in DOMAIN l : l[i] = id
           to(x) == [x EXCEPT !.order = at(x.id) - 1]
           all == FieldsReordered(s.fields, l)
<1>1. DOMAIN l = 1..Len(l) /\ Len(l) \in Nat
  BY LenProperties DEF EachOnce
<1>2. \A i \in DOMAIN l : at(l[i]) = i
  BY DEF EachOnce, IsInjective
<1>3. \A x \in s.fields : at(x.id) \in DOMAIN l /\ l[at(x.id)] = x.id
  BY DEF Range
<1>4. all = {to(x) : x \in s.fields}
  BY DEF FieldsReordered
<1> HIDE DEF at
<1>5. \A x \in s.fields : to(x).id = x.id /\ to(x).order = at(x.id) - 1
  BY DEF OwnNumbers, CfField
<1> HIDE DEF to, all
<1>6. to(f) \in all /\ to(g) \in all
  BY <1>4
<1>7. to(f).order = k - 1 /\ to(g).order = (k + 1) - 1 /\ to(f).id = l[k] /\ to(g).id = l[k + 1]
  BY <1>2, <1>5
<1>8. k \in Int
  BY <1>1
<1>9. ASSUME NEW h \in all \ {to(f), to(g)} PROVE h.order < to(f).order \/ h.order > to(g).order
  <2>1. PICK x \in s.fields : h = to(x)
    BY <1>4
  <2>2. x # f /\ x # g
    BY <2>1
  <2>3. x.id # l[k] /\ x.id # l[k + 1]
    BY <2>2 DEF OwnNumbers
  <2>4. at(x.id) # k /\ at(x.id) # k + 1 /\ at(x.id) \in Int
    BY <1>1, <1>3, <2>3
  <2>5. h.order = at(x.id) - 1
    BY <1>5, <2>1
  <2>6. QED
    BY <1>7, <1>8, <2>4, <2>5
<1>10. to(f).order < to(g).order
  BY <1>7, <1>8
<1>11. Directly(all, l[k], l[k + 1])
  BY <1>6, <1>7, <1>9, <1>10 DEF Directly
<1>12. QED
  BY <1>11 DEF all


(* The new column is put directly beside its target.                       *)
LEMMA PlacesBeside ==
    ASSUME CfInv, NEW m \in cf.net, InsertPlaces(m),
           {f.id : f \in cf.fields} \subseteq Range(m.ids) \cup {m.id},
           {m.target, m.id} \subseteq {f.id : f \in cf.fields}, m.target \in Range(m.ids)
    PROVE  IF m.side = "left" THEN Directly(cf'.fields, m.id, m.target)
           ELSE Directly(cf'.fields, m.target, m.id)
<1> DEFINE S == 1..cf.made
           ids == m.ids
           n == Len(ids)
           t == CHOOSE i \in DOMAIN ids : ids[i] = m.target
           p == IF m.side = "left" THEN t ELSE t + 1
           l == InsertAt(ids, p, m.id)
<1>1. /\ ids \in Seq(S) /\ IsInjective(ids) /\ m.id \in S /\ m.id \notin Range(ids)
      /\ OwnNumbers(cf) /\ cf.made \in Nat
  BY DEF CfInv, CfSound, CfShape, InsertKnows, EachOnce, InsertPlaces
<1>2. DOMAIN ids = 1..n /\ n \in Nat
  BY <1>1, LenProperties
<1>3. t \in 1..n /\ ids[t] = m.target
  BY <1>2 DEF Range
<1>4. l = InsertedInto(m)
  BY DEF InsertedInto, Spliced
<1>5. cf'.fields = FieldsReordered(cf.fields, l)
  <2>1. Becomes(m, "done", [cf EXCEPT !.fields = FieldsReordered(@, l)])
    BY <1>4 DEF InsertPlaces
  <2> HIDE DEF l
  <2>2. QED
    BY <2>1 DEF Becomes, CfInv, CfSound, CfShape
<1> HIDE DEF t
<1>6. p \in 1..(n + 1) /\ t \in Int
  BY <1>2, <1>3
<1>7. /\ l \in Seq(S) /\ Len(l) = n + 1 /\ IsInjective(l) /\ Range(l) = Range(ids) \cup {m.id}
      /\ \A k \in 1..(n + 1) : l[k] = IF k < p THEN ids[k] ELSE IF k = p THEN m.id ELSE ids[k - 1]
  <2> HIDE DEF S, p, ids
  <2>1. QED
    BY <1>1, <1>6, InsertedOnce
<1> HIDE DEF l, ids
<1>8. DOMAIN l = 1..(n + 1)
  BY <1>7, LenProperties
<1> HIDE DEF n
<1>9. EachOnce(l, cf.made) /\ \A f \in cf.fields : f.id \in Range(l)
  BY <1>7 DEF EachOnce, ids
<1>10. PICK f \in cf.fields : f.id = m.target
  OBVIOUS
<1>11. PICK g \in cf.fields : g.id = m.id
  OBVIOUS
<1>12. CASE m.side = "left"
  <2>1. p = t /\ t \in DOMAIN l /\ t + 1 \in DOMAIN l /\ t + 1 # p /\ ~(t + 1 < p) /\ (t + 1) - 1 = t
    BY <1>2, <1>3, <1>6, <1>8, <1>12
  <2>2. l[t] = m.id /\ l[t + 1] = m.target
    BY <1>3, <1>7, <1>8, <2>1
  <2>3. Directly(FieldsReordered(cf.fields, l), l[t], l[t + 1])
    BY <1>1, <1>9, <1>10, <1>11, <2>1, <2>2, ListedDirectly
  <2>4. QED
    BY <1>5, <1>12, <2>2, <2>3
<1>13. CASE m.side # "left"
  <2>1. p = t + 1 /\ t \in DOMAIN l /\ t + 1 \in DOMAIN l /\ t < p
    BY <1>2, <1>3, <1>6, <1>8, <1>13
  <2>2. l[t] = m.target /\ l[t + 1] = m.id
    BY <1>3, <1>7, <1>8, <2>1
  <2>3. Directly(FieldsReordered(cf.fields, l), l[t], l[t + 1])
    BY <1>1, <1>9, <1>10, <1>11, <2>1, <2>2, ListedDirectly
  <2>4. QED
    BY <1>5, <1>13, <2>2, <2>3
<1>14. QED
  BY <1>12, <1>13

LEMMA CfInvSuffices ==
    CfInv /\ CfNext =>
      \A m \in cf.net :
        (/\ m.do = "insert" /\ m.step = "created" /\ m \notin cf'.net
         /\ {f.id : f \in cf.fields} \subseteq Range(m.ids) \cup {m.id}
         /\ {m.target, m.id} \subseteq {f.id : f \in cf.fields}
         /\ m.target \in Range(m.ids))
        => IF m.side = "left" THEN Directly(cf'.fields, m.id, m.target)
           ELSE Directly(cf'.fields, m.target, m.id)
BY InsertionEnds, PlacesBeside

-----------------------------------------------------------------------------
(* The grid.                                                               *)

(* The grid, with numbers where there are numbers.                         *)
GridFields == {"loaded", "gone", "arr", "collapsed", "expanded", "windows", "hidden", "data", "edit", "draft",
               "typedIn", "range", "dragging", "again", "copied", "selected", "anchor", "cursor", "first",
               "spans", "ops"}
IsGrid(g) == g = [q \in GridFields |-> g[q]]
DataShape(D) ==
    /\ D = [r \in Range(TgRows) |-> D[r]]
    /\ \A r \in Range(TgRows) : D[r] = [f \in Range(TgFields) |-> D[r][f]]
GridShape(g) ==
    /\ IsGrid(g) /\ g.loaded \in SUBSET Range(TgRows) /\ g.arr \in TgArrangements
    /\ g.range \in [r1 : Int, c1 : Int, r2 : Int, c2 : Int] /\ g.anchor \in Int /\ g.cursor \in Int
    /\ g.edit # NoCell => g.edit = Cell(g.edit[1], g.edit[2])
    /\ DataShape(g.data)

(* What is in the input was typed into this cell, or is what the cell has. *)
DraftBelongs(g) ==
    IF InInput(g) THEN g.draft = g.data[g.edit[1]][g.edit[2]] \/ g.typedIn = g.edit
    ELSE g.draft = NoDraft

(* The anchor is the row clicked first, and what is selected spans from it. *)
Spanning(s, a, c) == {s[k] : k \in Min({a, c})..Max({a, c})}
Ungrouped(g) == g.arr = [order |-> TgRows, mode |-> "flat"]
SpanSound(g) ==
    (Ungrouped(g) /\ g.first # NoRow) =>
        /\ g.anchor \in 1..Len(RowItems(g)) /\ RowItems(g)[g.anchor] = g.first
        /\ g.spans => /\ g.cursor \in 1..Len(RowItems(g))
                      /\ g.selected = Spanning(RowItems(g), g.anchor, g.cursor)

TgSound(g) == GridShape(g) /\ DraftBelongs(g) /\ SpanSound(g)
TgInv == TgSound(tg)

(* What is on the page depends on what is arranged, loaded and folded, and on no more. *)
SamePage(g, h) ==
    /\ h.arr = g.arr /\ h.loaded = g.loaded /\ h.collapsed = g.collapsed
    /\ h.expanded = g.expanded /\ h.windows = g.windows /\ h.hidden = g.hidden

LEMMA PageIs ==
    ASSUME NEW g, NEW h, SamePage(g, h)
    PROVE  /\ Shown(h) = Shown(g) /\ DisplayFields(h) = DisplayFields(g)
           /\ VisibleRows(h) = VisibleRows(g) /\ RowItems(h) = RowItems(g)
           /\ h.edit = g.edit => InInput(h) = InInput(g)
<1>1. Shown(h) = Shown(g)
  BY DEF SamePage, Shown, VisibleRows, InGroups, Tree, ChildrenOf, ChildWindow
<1>2. /\ DisplayFields(h) = DisplayFields(g)
      /\ VisibleRows(h) = VisibleRows(g) /\ RowItems(h) = RowItems(g)
  BY DEF SamePage, DisplayFields, VisibleRows, RowItems
<1>3. ASSUME h.edit = g.edit PROVE InInput(h) = InInput(g)
  BY <1>1, <1>2, <1>3 DEF InInput, EditOnPage
<1>4. QED
  BY <1>1, <1>2, <1>3

(* The lists on the page have each row and column once.                    *)
LEMMA PageLists ==
    ASSUME NEW g, GridShape(g)
    PROVE  /\ VisibleRows(g) \in Seq(Range(TgRows)) /\ IsInjective(VisibleRows(g))
           /\ RowItems(g) \in Seq(Range(TgRows)) /\ IsInjective(RowItems(g)) /\ Range(RowItems(g)) = g.loaded
           /\ DisplayFields(g) \in Seq(Range(TgFields)) /\ IsInjective(DisplayFields(g))
           /\ g.arr.mode = "flat" => Shown(g) = VisibleRows(g)
           /\ Ungrouped(g) => Shown(g) = RowItems(g)
<1>1. g.arr \in TgArrangements /\ g.loaded \in SUBSET Range(TgRows)
  BY DEF GridShape
<1>2. /\ TgRows \in Seq(Range(TgRows)) /\ IsInjective(TgRows)
      /\ TgFields \in Seq(Range(TgFields)) /\ IsInjective(TgFields)
      /\ g.arr.order \in Seq(Range(TgRows)) /\ IsInjective(g.arr.order)
  BY <1>1, TgAssumption
<1>3. VisibleRows(g) \in Seq(Range(TgRows)) /\ IsInjective(VisibleRows(g))
  BY <1>2, KeptIs DEF VisibleRows
<1>4. /\ RowItems(g) \in Seq(Range(TgRows)) /\ IsInjective(RowItems(g))
      /\ Range(RowItems(g)) = Range(TgRows) \cap g.loaded
  BY <1>2, KeptIs DEF RowItems
<1>5. DisplayFields(g) \in Seq(Range(TgFields)) /\ IsInjective(DisplayFields(g))
  BY <1>2, KeptIs DEF DisplayFields
<1>6. g.arr.mode = "flat" => Shown(g) = VisibleRows(g)
  BY DEF Shown
<1>7. Ungrouped(g) => Shown(g) = RowItems(g)
  BY <1>6 DEF Ungrouped, VisibleRows, RowItems
<1>8. QED
  BY <1>1, <1>3, <1>4, <1>5, <1>6, <1>7

(* Where one of them is.                                                   *)
LEMMA PlacedOnce ==
    ASSUME NEW T, NEW s \in Seq(T), IsInjective(s), NEW i \in 1..Len(s)
    PROVE  Place(s, s[i]) = i
<1>1. DOMAIN s = 1..Len(s)
  BY LenProperties
<1>2. \A j \in 1..Len(s) : s[j] = s[i] => j = i
  BY <1>1 DEF IsInjective
<1>3. QED
  BY <1>2 DEF Place

(* A number is within itself and another.                                  *)
LEMMA WithinTwo ==
    ASSUME NEW a \in Int, NEW b \in Int
    PROVE  Min({a, b}) <= b /\ b <= Max({a, b})
<1>1. Min({a, b}) = IF a < b THEN a ELSE b
  BY MinOfTwo
<1>2. Max({a, b}) = IF a < b THEN b ELSE a
  BY MaxOfTwo
<1>3. QED
  BY <1>1, <1>2

(* The rows from one to another.                                           *)
LEMMA SpanSelected ==
    ASSUME NEW T, NEW s \in Seq(T), NEW a \in 1..Len(s), NEW c \in 1..Len(s)
    PROVE  Range(SubSeq(s, Min({a, c}), Min({Max({a, c}), Len(s)}))) = Spanning(s, a, c)
<1> DEFINE n == Len(s)
           lo == Min({a, c})
           hi == Max({a, c})
<1>1. n \in Nat
  BY LenProperties
<1> HIDE DEF n
<1>2. lo \in 1..n /\ hi \in 1..n /\ lo <= hi
  BY <1>1, MinOfTwo, MaxOfTwo DEF n
<1> HIDE DEF lo, hi
<1>3. Min({hi, n}) = hi
  BY <1>1, <1>2, MinOfTwo
<1> DEFINE q == SubSeq(s, lo, hi)
<1>4. /\ q \in Seq(T) /\ Len(q) = hi - lo + 1
      /\ \A i \in 1..(hi - lo + 1) : q[i] = s[lo + i - 1]
  BY <1>1, <1>2, SubSeqProperties DEF n
<1>5. DOMAIN q = 1..(hi - lo + 1)
  BY <1>4, LenProperties
<1> HIDE DEF q
<1>6. Range(q) = {s[k] : k \in lo..hi}
  <2>1. ASSUME NEW x \in Range(q) PROVE x \in {s[k] : k \in lo..hi}
    <3>1. PICK i \in 1..(hi - lo + 1) : x = q[i]
      BY <1>5 DEF Range
    <3>2. lo + i - 1 \in lo..hi
      BY <1>1, <1>2
    <3>3. QED
      BY <1>4, <3>1, <3>2
  <2>2. ASSUME NEW k \in lo..hi PROVE s[k] \in Range(q)
    <3>1. k - lo + 1 \in 1..(hi - lo + 1) /\ lo + (k - lo + 1) - 1 = k
      BY <1>1, <1>2
    <3>2. q[k - lo + 1] = s[k]
      BY <1>4, <3>1
    <3>3. QED
      BY <1>5, <3>1, <3>2 DEF Range
  <2>3. QED
    BY <2>1, <2>2
<1>7. QED
  BY <1>3, <1>6 DEF q, lo, hi, n, Spanning

LEMMA ClampedIn ==
    ASSUME NEW n \in Nat, n # 0, NEW k \in Int
    PROVE  Clamp(1, n, k) \in 1..n
BY DEF Clamp

LEMMA ClampedInt ==
    ASSUME NEW n \in Nat, NEW k \in Int
    PROVE  Clamp(1, n, k) \in Int
BY DEF Clamp

(* The same rows and the same selection.                                   *)
LEMMA SpanKept ==
    ASSUME NEW g, NEW h, SpanSound(g), h.arr = g.arr, h.loaded = g.loaded, h.first = g.first,
           h.anchor = g.anchor, h.cursor = g.cursor, h.spans = g.spans, h.selected = g.selected
    PROVE  SpanSound(h)
<1>1. RowItems(h) = RowItems(g) /\ Ungrouped(h) = Ungrouped(g)
  BY DEF RowItems, Ungrouped
<1>2. QED
  BY <1>1 DEF SpanSound


(* What a step leaves of the input before it is drawn.                     *)
DraftKept(g) ==
    \/ g.edit = NoCell \/ g.draft = NoDraft \/ g.typedIn = g.edit
    \/ g.data = tg.data /\ g.draft = tg.draft /\ g.typedIn = tg.typedIn

SameGrid(g, y) ==
    /\ y.loaded = g.loaded /\ y.gone = g.gone /\ y.arr = g.arr /\ y.collapsed = g.collapsed
    /\ y.expanded = g.expanded /\ y.windows = g.windows /\ y.hidden = g.hidden /\ y.data = g.data
    /\ y.edit = g.edit /\ y.range = g.range /\ y.dragging = g.dragging /\ y.again = g.again
    /\ y.copied = g.copied /\ y.selected = g.selected /\ y.anchor = g.anchor /\ y.cursor = g.cursor
    /\ y.first = g.first /\ y.spans = g.spans

LEMMA DrawnShape ==
    ASSUME NEW g, GridShape(g), NEW y, IsGrid(y), SameGrid(g, y)
    PROVE  GridShape(y) /\ SamePage(g, y)
BY DEF SameGrid, SamePage, GridShape

LEMMA Drawn ==
    ASSUME NEW g, GridShape(g), NEW y, y = RenderedGrid([g EXCEPT !.ops = @ - 1])
    PROVE  /\ SameGrid(g, y) /\ GridShape(y) /\ SamePage(g, y)
           /\ ~InInput(g) => y.draft = NoDraft
           /\ InInput(g) => \/ g.draft # NoDraft /\ g.edit = tg.edit /\ y.draft = g.draft /\ y.typedIn = g.typedIn
                            \/ y.draft = y.data[y.edit[1]][y.edit[2]]
<1> DEFINE h == [g EXCEPT !.ops = @ - 1]
<1>1. IsGrid(g)
  BY DEF GridShape
<1>2. IsGrid(h)
  BY <1>1 DEF IsGrid
<1>3. SameGrid(g, h) /\ h.draft = g.draft /\ h.typedIn = g.typedIn
  BY <1>1 DEF IsGrid, GridFields, SameGrid
<1>4. y = RenderedGrid(h)
  OBVIOUS
<1> HIDE DEF h
<1>5. SamePage(g, h)
  BY <1>3 DEF SameGrid, SamePage
<1>6. InInput(h) = InInput(g)
  BY <1>3, <1>5, PageIs DEF SameGrid
<1> DEFINE v == g.data[g.edit[1]][g.edit[2]]
<1>7. v = h.data[h.edit[1]][h.edit[2]]
  BY <1>3 DEF SameGrid
<1> HIDE DEF v
<1>8. ASSUME NEW d, NEW t, y = [h EXCEPT !.draft = d, !.typedIn = t]
      PROVE  SameGrid(g, y) /\ GridShape(y) /\ SamePage(g, y) /\ y.draft = d
  <2>1. IsGrid(y)
    BY <1>2, <1>8 DEF IsGrid
  <2>2. SameGrid(h, y) /\ y.draft = d
    BY <1>2, <1>8, ZenonT(60) DEF IsGrid, GridFields, SameGrid
  <2>3. SameGrid(g, y)
    BY <1>3, <2>2 DEF SameGrid
  <2>4. QED
    BY <2>1, <2>2, <2>3, DrawnShape
<1>9. CASE ~InInput(g)
  <2>1. y = [h EXCEPT !.draft = NoDraft, !.typedIn = NoCell]
    BY <1>4, <1>6, <1>9 DEF RenderedGrid
  <2>2. QED
    BY <1>8, <1>9, <2>1
<1>10. CASE InInput(g) /\ h.draft # NoDraft /\ h.edit = tg.edit
  <2>1. y = h
    BY <1>4, <1>6, <1>10 DEF RenderedGrid
  <2>2. GridShape(y)
    BY <1>2, <1>3, <2>1, DrawnShape
  <2>3. QED
    BY <1>3, <1>5, <1>10, <2>1, <2>2 DEF SameGrid
<1>11. CASE InInput(g) /\ ~(h.draft # NoDraft /\ h.edit = tg.edit)
  <2>1. y = [h EXCEPT !.draft = v, !.typedIn = NoCell]
    BY <1>4, <1>6, <1>7, <1>11 DEF RenderedGrid
  <2>2. SameGrid(g, y) /\ GridShape(y) /\ SamePage(g, y) /\ y.draft = v
    BY <1>8, <2>1
  <2>3. y.draft = y.data[y.edit[1]][y.edit[2]]
    BY <2>2 DEF SameGrid, v
  <2>4. QED
    BY <1>11, <2>2, <2>3
<1>12. QED
  BY <1>9, <1>10, <1>11

(* Every step ends in drawing the grid, which keeps it sound.              *)
LEMMA GridStep ==
    ASSUME TgInv, NEW g, GridShape(g), DraftKept(g), SpanSound(g), Gives(g)
    PROVE  TgInv' /\ SameGrid(g, tg')
<1>1. PICK y : y = tg' /\ y = RenderedGrid([g EXCEPT !.ops = @ - 1])
  BY DEF Gives
<1>2. /\ SameGrid(g, y) /\ GridShape(y) /\ SamePage(g, y)
      /\ ~InInput(g) => y.draft = NoDraft
      /\ InInput(g) => \/ g.draft # NoDraft /\ g.edit = tg.edit /\ y.draft = g.draft /\ y.typedIn = g.typedIn
                       \/ y.draft = y.data[y.edit[1]][y.edit[2]]
  BY <1>1, Drawn
<1>3. InInput(y) = InInput(g)
  BY <1>2, PageIs DEF SameGrid
<1>4. DraftBelongs(y)
  <2>1. CASE ~InInput(g)
    BY <1>2, <1>3, <2>1 DEF DraftBelongs
  <2>2. CASE InInput(g) /\ y.draft = y.data[y.edit[1]][y.edit[2]]
    BY <1>3, <2>2 DEF DraftBelongs
  <2>3. CASE /\ InInput(g) /\ g.draft # NoDraft /\ g.edit = tg.edit
             /\ y.draft = g.draft /\ y.typedIn = g.typedIn
    <3>1. g.edit # NoCell
      BY <2>3 DEF InInput, EditOnPage
    <3>2. CASE g.typedIn = g.edit
      BY <1>2, <1>3, <2>3, <3>2 DEF DraftBelongs, SameGrid
    <3>3. CASE g.data = tg.data /\ g.draft = tg.draft /\ g.typedIn = tg.typedIn
      <4>1. DraftBelongs(tg)
        BY DEF TgInv, TgSound
      <4>2. InInput(tg)
        BY <2>3, <3>3, <4>1 DEF DraftBelongs
      <4>3. tg.draft = tg.data[tg.edit[1]][tg.edit[2]] \/ tg.typedIn = tg.edit
        BY <4>1, <4>2 DEF DraftBelongs
      <4>4. y.draft = y.data[y.edit[1]][y.edit[2]] \/ y.typedIn = y.edit
        BY <1>2, <2>3, <3>3, <4>3 DEF SameGrid
      <4>5. QED
        BY <1>3, <2>3, <4>4 DEF DraftBelongs
    <3>4. QED
      BY <2>3, <3>1, <3>2, <3>3 DEF DraftKept
  <2>4. QED
    BY <1>2, <2>1, <2>2, <2>3
<1>5. SpanSound(y)
  BY <1>2, SpanKept DEF SameGrid
<1>6. TgSound(y)
  BY <1>2, <1>4, <1>5 DEF TgSound
<1>7. TgSound(tg')
  BY <1>1, <1>6
<1>8. TgInv' /\ SameGrid(g, tg')
  BY <1>1, <1>2, <1>7 DEF TgInv
<1>9. QED
  BY <1>8


(* A value is put into one cell and no other.                              *)
LEMMA DataPut ==
    ASSUME NEW D, DataShape(D), NEW a, NEW b, NEW v, NEW E, E = [D EXCEPT ![a][b] = v]
    PROVE  /\ DataShape(E)
           /\ \A r \in Range(TgRows), f \in Range(TgFields) : E[r][f] # D[r][f] => r = a /\ f = b /\ E[r][f] = v
<1> DEFINE w == [D[a] EXCEPT ![b] = v]
<1>1. E = [D EXCEPT ![a] = w]
  OBVIOUS
<1>2. a \in Range(TgRows) => /\ w = [f \in Range(TgFields) |-> w[f]]
                             /\ \A f \in Range(TgFields) : w[f] = IF f = b THEN v ELSE D[a][f]
  BY DEF DataShape
<1> HIDE DEF w
<1>3. E = [r \in Range(TgRows) |-> E[r]] /\ \A r \in Range(TgRows) : E[r] = IF r = a THEN w ELSE D[r]
  BY <1>1 DEF DataShape
<1>4. DataShape(E)
  BY <1>2, <1>3 DEF DataShape
<1>5. QED
  BY <1>2, <1>3, <1>4

LEMMA GridSound ==
    ASSUME TgInv
    PROVE  GridShape(tg) /\ IsGrid(tg) /\ SpanSound(tg) /\ DraftBelongs(tg) /\ DataShape(tg.data)
BY DEF TgInv, TgSound, GridShape

(* The selection is left alone.                                            *)
LEMMA Unselected ==
    ASSUME TgInv, NEW g, IsGrid(g), DraftKept(g), Gives(g), DataShape(g.data),
           g.loaded \in SUBSET Range(TgRows), g.arr \in TgArrangements,
           g.range \in [r1 : Int, c1 : Int, r2 : Int, c2 : Int],
           g.edit # NoCell => g.edit = Cell(g.edit[1], g.edit[2]),
           g.anchor = tg.anchor, g.cursor = tg.cursor, g.selected = tg.selected,
           \/ g.first = NoRow
           \/ g.arr = tg.arr /\ g.loaded = tg.loaded /\ g.first = tg.first /\ g.spans = tg.spans
    PROVE  TgInv' /\ SameGrid(g, tg')
<1>1. GridShape(tg) /\ SpanSound(tg)
  BY GridSound
<1>2. GridShape(g)
  BY <1>1 DEF GridShape
<1>3. SpanSound(g)
  <2>1. CASE g.first = NoRow
    BY <2>1 DEF SpanSound
  <2>2. CASE g.arr = tg.arr /\ g.loaded = tg.loaded /\ g.first = tg.first /\ g.spans = tg.spans
    BY <1>1, <2>2, SpanKept
  <2>3. QED
    BY <2>1, <2>2
<1>4. QED
  BY <1>2, <1>3, GridStep

LEMMA CellIs ==
    ASSUME NEW r, NEW f
    PROVE  Cell(r, f) = Cell(Cell(r, f)[1], Cell(r, f)[2])
BY DEF Cell

LEMMA AtIs ==
    ASSUME NEW r \in Int, NEW c \in Int
    PROVE  At(r, c) \in [r1 : Int, c1 : Int, r2 : Int, c2 : Int]
BY DEF At

LEMMA PressKeeps ==
    ASSUME TgInv, NEW r \in Int, NEW c \in Int, Press(r, c)
    PROVE  /\ TgInv'
           /\ tg'.data # tg.data => InInput(tg) /\ tg'.data = [tg.data EXCEPT ![tg.edit[1]][tg.edit[2]] = tg.draft]
<1> DEFINE cell == Cell(Shown(tg)[r], DisplayFields(tg)[c])
           again == (tg.range = At(r, c)) /\ Editable(cell[2])
           kept == [tg EXCEPT !.edit = NoCell, !.range = At(r, c), !.dragging = TRUE, !.again = again]
           written == [kept EXCEPT !.data[tg.edit[1]][tg.edit[2]] = tg.draft]
<1>1. GridShape(tg) /\ IsGrid(tg) /\ DataShape(tg.data)
  BY GridSound
<1>2. At(r, c) \in [r1 : Int, c1 : Int, r2 : Int, c2 : Int]
  BY AtIs
<1>3. Gives(kept) \/ (InInput(tg) /\ Gives(written))
  BY DEF Press
<1> HIDE DEF again
<1>4. IsGrid(kept)
  BY <1>1 DEF IsGrid
<1>5. /\ kept.edit = NoCell /\ kept.range = At(r, c) /\ kept.loaded = tg.loaded /\ kept.arr = tg.arr
      /\ kept.data = tg.data /\ kept.anchor = tg.anchor /\ kept.cursor = tg.cursor
      /\ kept.selected = tg.selected /\ kept.first = tg.first /\ kept.spans = tg.spans
  BY <1>1 DEF IsGrid, GridFields
<1> HIDE DEF kept
<1>6. IsGrid(written)
  BY <1>4 DEF IsGrid
<1>7. /\ written.edit = NoCell /\ written.range = At(r, c) /\ written.loaded = tg.loaded /\ written.arr = tg.arr
      /\ written.data = [kept.data EXCEPT ![tg.edit[1]][tg.edit[2]] = tg.draft]
      /\ written.anchor = tg.anchor /\ written.cursor = tg.cursor
      /\ written.selected = tg.selected /\ written.first = tg.first /\ written.spans = tg.spans
  BY <1>4, <1>5 DEF IsGrid, GridFields
<1> HIDE DEF written
<1>8. tg.loaded \in SUBSET Range(TgRows) /\ tg.arr \in TgArrangements
  BY <1>1 DEF GridShape
<1>9. CASE Gives(kept)
  <2>1. DraftKept(kept) /\ DataShape(kept.data)
    BY <1>1, <1>5 DEF DraftKept
  <2>2. TgInv' /\ SameGrid(kept, tg')
    BY <1>2, <1>4, <1>5, <1>8, <1>9, <2>1, Unselected
  <2>3. QED
    BY <1>5, <2>2 DEF SameGrid
<1>10. CASE InInput(tg) /\ Gives(written)
  <2>1. DraftKept(written)
    BY <1>7 DEF DraftKept
  <2>2. DataShape(written.data)
    BY <1>1, <1>5, <1>7, DataPut
  <2>3. TgInv' /\ SameGrid(written, tg')
    BY <1>2, <1>6, <1>7, <1>8, <1>10, <2>1, <2>2, Unselected
  <2>4. QED
    BY <1>5, <1>7, <1>10, <2>3 DEF SameGrid
<1>11. QED
  BY <1>3, <1>9, <1>10


(* The cell edited and the highlight move, nothing is written.             *)
LEMMA Unwritten ==
    ASSUME TgInv, NEW g, IsGrid(g), Gives(g),
           g.range \in [r1 : Int, c1 : Int, r2 : Int, c2 : Int],
           g.edit # NoCell => g.edit = Cell(g.edit[1], g.edit[2]),
           g.data = tg.data, g.draft = tg.draft, g.typedIn = tg.typedIn,
           g.loaded = tg.loaded, g.arr = tg.arr,
           g.anchor = tg.anchor, g.cursor = tg.cursor, g.selected = tg.selected,
           g.first = tg.first, g.spans = tg.spans
    PROVE  TgInv' /\ SameGrid(g, tg') /\ tg'.data = tg.data
<1>1. GridShape(tg) /\ DataShape(tg.data)
  BY GridSound
<1>2. tg.loaded \in SUBSET Range(TgRows) /\ tg.arr \in TgArrangements
  BY <1>1 DEF GridShape
<1>3. DraftKept(g)
  BY DEF DraftKept
<1>4. TgInv' /\ SameGrid(g, tg')
  BY <1>1, <1>2, <1>3, Unselected
<1>5. QED
  BY <1>4 DEF SameGrid

LEMMA MoveOverKeeps ==
    ASSUME TgInv, NEW r \in Int, NEW c \in Int, MoveOver(r, c)
    PROVE  TgInv' /\ tg'.data = tg.data
<1> DEFINE g == [tg EXCEPT !.range.r2 = r, !.range.c2 = c]
<1>1. GridShape(tg) /\ IsGrid(tg)
  BY GridSound
<1>2. Gives(g)
  BY DEF MoveOver
<1>3. IsGrid(g)
  BY <1>1 DEF IsGrid
<1>4. /\ g.range = [tg.range EXCEPT !.r2 = r, !.c2 = c]
      /\ g.edit = tg.edit /\ g.data = tg.data /\ g.draft = tg.draft /\ g.typedIn = tg.typedIn
      /\ g.loaded = tg.loaded /\ g.arr = tg.arr
      /\ g.anchor = tg.anchor /\ g.cursor = tg.cursor /\ g.selected = tg.selected
      /\ g.first = tg.first /\ g.spans = tg.spans
  BY <1>1 DEF IsGrid, GridFields
<1> HIDE DEF g
<1>5. g.range \in [r1 : Int, c1 : Int, r2 : Int, c2 : Int] /\ (g.edit # NoCell => g.edit = Cell(g.edit[1], g.edit[2]))
  BY <1>1, <1>4 DEF GridShape
<1>6. QED
  BY <1>2, <1>3, <1>4, <1>5, Unwritten

LEMMA ReleaseKeeps ==
    ASSUME TgInv, NEW r \in Int, NEW c \in Int, Release(r, c)
    PROVE  TgInv' /\ tg'.data = tg.data
<1> DEFINE cell == Cell(Shown(tg)[r], DisplayFields(tg)[c])
           let == [tg EXCEPT !.dragging = FALSE]
           open == [tg EXCEPT !.dragging = FALSE, !.edit = cell]
<1>1. GridShape(tg) /\ IsGrid(tg)
  BY GridSound
<1>2. Gives(let) \/ Gives(open)
  BY DEF Release
<1>3. cell = Cell(cell[1], cell[2])
  BY CellIs
<1> HIDE DEF cell
<1>4. IsGrid(let) /\ IsGrid(open)
  BY <1>1 DEF IsGrid
<1>5. /\ let.range = tg.range /\ let.edit = tg.edit
      /\ let.data = tg.data /\ let.draft = tg.draft /\ let.typedIn = tg.typedIn
      /\ let.loaded = tg.loaded /\ let.arr = tg.arr
      /\ let.anchor = tg.anchor /\ let.cursor = tg.cursor /\ let.selected = tg.selected
      /\ let.first = tg.first /\ let.spans = tg.spans
  BY <1>1 DEF IsGrid, GridFields
<1>6. /\ open.range = tg.range /\ open.edit = cell
      /\ open.data = tg.data /\ open.draft = tg.draft /\ open.typedIn = tg.typedIn
      /\ open.loaded = tg.loaded /\ open.arr = tg.arr
      /\ open.anchor = tg.anchor /\ open.cursor = tg.cursor /\ open.selected = tg.selected
      /\ open.first = tg.first /\ open.spans = tg.spans
  BY <1>1 DEF IsGrid, GridFields
<1> HIDE DEF let, open
<1>7. tg.range \in [r1 : Int, c1 : Int, r2 : Int, c2 : Int] /\ (tg.edit # NoCell => tg.edit = Cell(tg.edit[1], tg.edit[2]))
  BY <1>1 DEF GridShape
<1>8. CASE Gives(let)
  BY <1>4, <1>5, <1>7, <1>8, Unwritten
<1>9. CASE Gives(open)
  BY <1>3, <1>4, <1>6, <1>7, <1>9, Unwritten
<1>10. QED
  BY <1>2, <1>8, <1>9

(* A highlight and a cell edited, or none: a double click, the keys.       *)
LEMMA MovedKeeps ==
    ASSUME TgInv, NEW R \in [r1 : Int, c1 : Int, r2 : Int, c2 : Int], NEW e,
           e # NoCell => e = Cell(e[1], e[2]), Gives([tg EXCEPT !.range = R, !.edit = e])
    PROVE  TgInv' /\ tg'.data = tg.data /\ tg'.range = R /\ tg'.edit = e /\ SamePage(tg, tg')
<1> DEFINE g == [tg EXCEPT !.range = R, !.edit = e]
<1>1. IsGrid(tg)
  BY GridSound
<1>2. IsGrid(g)
  BY <1>1 DEF IsGrid
<1>3. /\ g.range = R /\ g.edit = e /\ g.data = tg.data /\ g.draft = tg.draft /\ g.typedIn = tg.typedIn
      /\ g.loaded = tg.loaded /\ g.arr = tg.arr
      /\ g.anchor = tg.anchor /\ g.cursor = tg.cursor /\ g.selected = tg.selected
      /\ g.first = tg.first /\ g.spans = tg.spans
      /\ g.collapsed = tg.collapsed /\ g.expanded = tg.expanded /\ g.windows = tg.windows /\ g.hidden = tg.hidden
  BY <1>1 DEF IsGrid, GridFields
<1>4. Gives(g)
  OBVIOUS
<1> HIDE DEF g
<1>5. TgInv' /\ SameGrid(g, tg') /\ tg'.data = tg.data
  BY <1>2, <1>3, <1>4, Unwritten
<1>6. QED
  BY <1>3, <1>5 DEF SameGrid, SamePage

LEMMA DoubleClickKeeps ==
    ASSUME TgInv, NEW r \in Int, NEW c \in Int, DoubleClick(r, c)
    PROVE  TgInv' /\ tg'.data = tg.data
<1> DEFINE cell == Cell(Shown(tg)[r], DisplayFields(tg)[c])
<1>1. Gives([tg EXCEPT !.range = At(r, c), !.edit = cell])
  BY DEF DoubleClick
<1>2. cell = Cell(cell[1], cell[2])
  BY CellIs
<1> HIDE DEF cell
<1>3. QED
  BY <1>1, <1>2, AtIs, MovedKeeps

(* A key moves the highlight within the visible rows.                      *)
LEMMA StepKeyKeeps ==
    ASSUME TgInv, StepKey
    PROVE  /\ TgInv' /\ tg'.data = tg.data
           /\ (tg.arr.mode = "flat" /\ Shown(tg) # <<>> /\ DisplayFields(tg) # <<>>)
                => tg'.range.r2 \in DOMAIN Shown(tg') /\ tg'.range.c2 \in DOMAIN DisplayFields(tg')
<1>1. GridShape(tg)
  BY GridSound
<1>2. PICK d \in Steps : Gives(Stepped(tg, d[1], d[2]))
  BY DEF StepKey
<1> DEFINE rows == Len(VisibleRows(tg))
           cols == Len(DisplayFields(tg))
           r == Clamp(1, rows, tg.range.r2 + d[1])
           c == Clamp(1, cols, tg.range.c2 + d[2])
<1>3. /\ VisibleRows(tg) \in Seq(Range(TgRows)) /\ DisplayFields(tg) \in Seq(Range(TgFields))
      /\ tg.arr.mode = "flat" => Shown(tg) = VisibleRows(tg)
  BY <1>1, PageLists
<1>4. rows \in Nat /\ cols \in Nat
  BY <1>3, LenProperties
<1>5. tg.range.r2 + d[1] \in Int /\ tg.range.c2 + d[2] \in Int
  BY <1>1 DEF GridShape, Steps
<1>6. r \in Int /\ c \in Int
  BY <1>4, <1>5, ClampedInt
<1>7. Gives([tg EXCEPT !.range = At(r, c), !.edit = NoCell])
  BY <1>2 DEF Stepped
<1>8. (rows # 0 => r \in 1..rows) /\ (cols # 0 => c \in 1..cols)
  BY <1>4, <1>5, ClampedIn
<1> HIDE DEF r, c
<1>9. TgInv' /\ tg'.data = tg.data /\ tg'.range = At(r, c) /\ SamePage(tg, tg')
  BY <1>6, <1>7, AtIs, MovedKeeps
<1>10. ASSUME tg.arr.mode = "flat", Shown(tg) # <<>>, DisplayFields(tg) # <<>>
       PROVE  tg'.range.r2 \in DOMAIN Shown(tg') /\ tg'.range.c2 \in DOMAIN DisplayFields(tg')
  <2>1. Shown(tg') = VisibleRows(tg) /\ DisplayFields(tg') = DisplayFields(tg)
    BY <1>3, <1>9, <1>10, PageIs
  <2>2. rows # 0 /\ cols # 0
    BY <1>3, <1>10, EmptySeq
  <2>3. DOMAIN VisibleRows(tg) = 1..rows /\ DOMAIN DisplayFields(tg) = 1..cols
    BY <1>3, LenProperties
  <2>4. tg'.range.r2 = r /\ tg'.range.c2 = c
    BY <1>9 DEF At
  <2>5. QED
    BY <1>8, <2>1, <2>2, <2>3, <2>4
<1>11. QED
  BY <1>9, <1>10

(* Enter edits the cell the highlight ends in.                             *)
LEMMA EnterKeyKeeps ==
    ASSUME TgInv, EnterKey
    PROVE  /\ TgInv' /\ tg'.data = tg.data
           /\ tg.arr.mode = "flat"
                => HighlightedIn(tg', Place(Shown(tg'), tg'.edit[1]), Place(DisplayFields(tg'), tg'.edit[2]))
<1> DEFINE r == tg.range.r2
           c == tg.range.c2
           e == Cell(VisibleRows(tg)[r], DisplayFields(tg)[c])
<1>1. GridShape(tg) /\ IsGrid(tg)
  BY GridSound
<1>2. /\ VisibleRows(tg) \in Seq(Range(TgRows)) /\ IsInjective(VisibleRows(tg))
      /\ DisplayFields(tg) \in Seq(Range(TgFields)) /\ IsInjective(DisplayFields(tg))
      /\ tg.arr.mode = "flat" => Shown(tg) = VisibleRows(tg)
  BY <1>1, PageLists
<1>3. /\ tg.range # NoRange /\ r \in DOMAIN VisibleRows(tg) /\ c \in DOMAIN DisplayFields(tg)
      /\ Gives([tg EXCEPT !.edit = e])
  BY DEF EnterKey
<1>4. e = Cell(e[1], e[2]) /\ e[1] = VisibleRows(tg)[r] /\ e[2] = DisplayFields(tg)[c]
  BY DEF Cell
<1> HIDE DEF e
<1>5. [tg EXCEPT !.edit = e] = [tg EXCEPT !.range = tg.range, !.edit = e]
  <2>1. [tg EXCEPT !.range = tg.range] = tg
    BY <1>1 DEF IsGrid
  <2>2. QED
    BY <2>1
<1>6. tg.range \in [r1 : Int, c1 : Int, r2 : Int, c2 : Int]
  BY <1>1 DEF GridShape
<1>7. TgInv' /\ tg'.data = tg.data /\ tg'.range = tg.range /\ tg'.edit = e /\ SamePage(tg, tg')
  BY <1>3, <1>4, <1>5, <1>6, MovedKeeps
<1>8. ASSUME tg.arr.mode = "flat"
      PROVE  HighlightedIn(tg', Place(Shown(tg'), tg'.edit[1]), Place(DisplayFields(tg'), tg'.edit[2]))
  <2>1. Shown(tg') = VisibleRows(tg) /\ DisplayFields(tg') = DisplayFields(tg)
    BY <1>2, <1>7, <1>8, PageIs
  <2>2. Place(VisibleRows(tg), e[1]) = r /\ Place(DisplayFields(tg), e[2]) = c
    <3>1. r \in 1..Len(VisibleRows(tg)) /\ c \in 1..Len(DisplayFields(tg))
      BY <1>2, <1>3, LenProperties
    <3>2. QED
      BY <1>2, <1>4, <3>1, PlacedOnce
  <2>3. /\ Min({tg.range.r1, r}) <= r /\ r <= Max({tg.range.r1, r})
        /\ Min({tg.range.c1, c}) <= c /\ c <= Max({tg.range.c1, c})
    <3>1. r \in Int /\ c \in Int /\ tg.range.r1 \in Int /\ tg.range.c1 \in Int
      BY <1>6
    <3> HIDE DEF r, c
    <3>2. QED
      BY <3>1, WithinTwo
  <2>4. HighlightedIn(tg', r, c)
    BY <1>3, <1>7, <2>3 DEF HighlightedIn
  <2>5. QED
    BY <1>7, <2>1, <2>2, <2>4
<1>9. QED
  BY <1>7, <1>8

LEMMA EscapeKeyKeeps ==
    ASSUME TgInv, EscapeKey
    PROVE  TgInv' /\ tg'.data = tg.data
<1>1. NoRange \in [r1 : Int, c1 : Int, r2 : Int, c2 : Int]
  BY DEF NoRange
<1>2. Gives([tg EXCEPT !.range = NoRange, !.edit = NoCell])
  BY DEF EscapeKey
<1>3. QED
  BY <1>1, <1>2, MovedKeeps

LEMMA CopyKeyKeeps ==
    ASSUME TgInv, CopyKey
    PROVE  TgInv' /\ tg'.data = tg.data
<1>1. GridShape(tg) /\ IsGrid(tg)
  BY GridSound
<1>2. PICK S : Gives([tg EXCEPT !.copied = S])
  BY DEF CopyKey
<1> DEFINE g == [tg EXCEPT !.copied = S]
<1>3. Gives(g)
  BY <1>2
<1>4. IsGrid(g)
  BY <1>1 DEF IsGrid
<1>5. /\ g.range = tg.range /\ g.edit = tg.edit /\ g.data = tg.data /\ g.draft = tg.draft /\ g.typedIn = tg.typedIn
      /\ g.loaded = tg.loaded /\ g.arr = tg.arr
      /\ g.anchor = tg.anchor /\ g.cursor = tg.cursor /\ g.selected = tg.selected
      /\ g.first = tg.first /\ g.spans = tg.spans
  BY <1>1 DEF IsGrid, GridFields
<1> HIDE DEF g
<1>6. tg.range \in [r1 : Int, c1 : Int, r2 : Int, c2 : Int] /\ (tg.edit # NoCell => tg.edit = Cell(tg.edit[1], tg.edit[2]))
  BY <1>1 DEF GridShape
<1>7. QED
  BY <1>3, <1>4, <1>5, <1>6, Unwritten


(* What is on the page is edited at its place.                             *)
LEMMA PlaceIn ==
    ASSUME NEW s, NEW x, InList(s, x)
    PROVE  Place(s, x) \in 1..Len(s)
BY DEF InList, Place

LEMMA FinishedAtIs ==
    ASSUME TgInv, NEW r \in Int, NEW c \in Int, NEW move \in {"down", "next", "previous", "stay"}
    PROVE  FinishedAt(r, c, move) \in [r1 : Int, c1 : Int, r2 : Int, c2 : Int]
<1> DEFINE rows == Len(VisibleRows(tg))
           cols == Len(DisplayFields(tg))
<1>1. GridShape(tg)
  BY GridSound
<1>2. VisibleRows(tg) \in Seq(Range(TgRows)) /\ DisplayFields(tg) \in Seq(Range(TgFields))
  BY <1>1, PageLists
<1>3. rows \in Nat /\ cols \in Nat
  BY <1>2, LenProperties
<1>4. /\ Clamp(1, rows, r + 1) \in Int /\ Clamp(1, rows, r - 1) \in Int
      /\ c + 1 \in Int /\ c - 1 \in Int /\ 1 \in Int
  <2>1. r + 1 \in Int /\ r - 1 \in Int /\ c + 1 \in Int /\ c - 1 \in Int /\ 1 \in Int
    OBVIOUS
  <2> HIDE DEF rows
  <2>2. \A k \in Int : Clamp(1, rows, k) \in Int
    BY <1>3, ClampedInt
  <2>3. QED
    BY <2>1, <2>2
<1>5. \A p, q \in Int : At(p, q) \in [r1 : Int, c1 : Int, r2 : Int, c2 : Int]
  BY AtIs
<1>6. tg.range \in [r1 : Int, c1 : Int, r2 : Int, c2 : Int]
  BY <1>1 DEF GridShape
<1> DEFINE down == Clamp(1, rows, r + 1)
           up == Clamp(1, rows, r - 1)
<1>7. \/ FinishedAt(r, c, move) = tg.range
      \/ FinishedAt(r, c, move) \in {At(down, c), At(r, c + 1), At(down, 1), At(r, c - 1), At(up, cols)}
  <2> HIDE DEF down, up, rows, cols
  <2>1. CASE move = "down"
    BY <2>1 DEF FinishedAt, down, rows
  <2>2. CASE move = "next"
    BY <2>2 DEF FinishedAt, down, rows
  <2>3. CASE move = "previous"
    BY <2>3 DEF FinishedAt, up, rows, cols
  <2>4. CASE move = "stay"
    BY <2>4 DEF FinishedAt
  <2>5. QED
    BY <2>1, <2>2, <2>3, <2>4
<1>8. down \in Int /\ up \in Int /\ cols \in Int
  BY <1>3, <1>4
<1> HIDE DEF rows, cols, down, up
<1>9. {At(down, c), At(r, c + 1), At(down, 1), At(r, c - 1), At(up, cols)}
        \subseteq [r1 : Int, c1 : Int, r2 : Int, c2 : Int]
  <2>1. /\ At(down, c) \in [r1 : Int, c1 : Int, r2 : Int, c2 : Int]
        /\ At(r, c + 1) \in [r1 : Int, c1 : Int, r2 : Int, c2 : Int]
    BY <1>5, <1>8
  <2>2. /\ At(down, 1) \in [r1 : Int, c1 : Int, r2 : Int, c2 : Int]
        /\ At(r, c - 1) \in [r1 : Int, c1 : Int, r2 : Int, c2 : Int]
        /\ At(up, cols) \in [r1 : Int, c1 : Int, r2 : Int, c2 : Int]
    BY <1>5, <1>8
  <2>3. QED
    BY <2>1, <2>2
<1>10. QED
  BY <1>6, <1>7, <1>9

LEMMA TypeKeeps ==
    ASSUME TgInv, Type
    PROVE  TgInv' /\ tg'.data = tg.data
<1>1. GridShape(tg) /\ IsGrid(tg) /\ DataShape(tg.data)
  BY GridSound
<1>2. PICK t : Gives([tg EXCEPT !.draft = t, !.typedIn = tg.edit])
  BY DEF Type
<1> DEFINE g == [tg EXCEPT !.draft = t, !.typedIn = tg.edit]
<1>3. Gives(g)
  BY <1>2
<1>4. IsGrid(g)
  BY <1>1 DEF IsGrid
<1>5. /\ g.range = tg.range /\ g.edit = tg.edit /\ g.data = tg.data /\ g.typedIn = tg.edit
      /\ g.loaded = tg.loaded /\ g.arr = tg.arr
      /\ g.anchor = tg.anchor /\ g.cursor = tg.cursor /\ g.selected = tg.selected
      /\ g.first = tg.first /\ g.spans = tg.spans
  BY <1>1 DEF IsGrid, GridFields
<1> HIDE DEF g
<1>6. DraftKept(g)
  BY <1>5 DEF DraftKept
<1>7. /\ tg.range \in [r1 : Int, c1 : Int, r2 : Int, c2 : Int]
      /\ tg.edit # NoCell => tg.edit = Cell(tg.edit[1], tg.edit[2])
      /\ tg.loaded \in SUBSET Range(TgRows) /\ tg.arr \in TgArrangements
  BY <1>1 DEF GridShape
<1>8. TgInv' /\ SameGrid(g, tg')
  BY <1>1, <1>3, <1>4, <1>5, <1>6, <1>7, Unselected
<1>9. QED
  BY <1>5, <1>8 DEF SameGrid

LEMMA FinishKeeps ==
    ASSUME TgInv, Finish
    PROVE  TgInv' /\ InInput(tg) /\ tg'.data = [tg.data EXCEPT ![tg.edit[1]][tg.edit[2]] = tg.draft]
<1>1. GridShape(tg) /\ IsGrid(tg) /\ DataShape(tg.data)
  BY GridSound
<1> DEFINE r == Place(Shown(tg), tg.edit[1])
           c == Place(DisplayFields(tg), tg.edit[2])
<1>2. InInput(tg)
  BY DEF Finish
<1>3. PICK move \in {"down", "next", "previous", "stay"} :
        Gives([tg EXCEPT !.data[tg.edit[1]][tg.edit[2]] = tg.draft, !.edit = NoCell, !.range = FinishedAt(r, c, move)])
  BY DEF Finish
<1>4. r \in Int /\ c \in Int
  <2>1. r \in 1..Len(Shown(tg)) /\ c \in 1..Len(DisplayFields(tg))
    BY <1>2, PlaceIn DEF InInput, EditOnPage
  <2> HIDE DEF r, c
  <2>2. QED
    BY <2>1
<1> HIDE DEF r, c
<1> DEFINE R == FinishedAt(r, c, move)
<1>5. R \in [r1 : Int, c1 : Int, r2 : Int, c2 : Int]
  BY <1>4, FinishedAtIs
<1> HIDE DEF R
<1> DEFINE g == [tg EXCEPT !.data[tg.edit[1]][tg.edit[2]] = tg.draft, !.edit = NoCell, !.range = R]
<1>6. Gives(g)
  BY <1>3 DEF R
<1>7. IsGrid(g)
  BY <1>1 DEF IsGrid
<1>8. /\ g.range = R /\ g.edit = NoCell /\ g.data = [tg.data EXCEPT ![tg.edit[1]][tg.edit[2]] = tg.draft]
      /\ g.loaded = tg.loaded /\ g.arr = tg.arr
      /\ g.anchor = tg.anchor /\ g.cursor = tg.cursor /\ g.selected = tg.selected
      /\ g.first = tg.first /\ g.spans = tg.spans
  BY <1>1 DEF IsGrid, GridFields
<1> HIDE DEF g
<1>9. DraftKept(g) /\ DataShape(g.data)
  BY <1>1, <1>8, DataPut, SMTT(30) DEF DraftKept
<1>10. tg.loaded \in SUBSET Range(TgRows) /\ tg.arr \in TgArrangements
  BY <1>1 DEF GridShape
<1>11. TgInv' /\ SameGrid(g, tg')
  BY <1>5, <1>6, <1>7, <1>8, <1>9, <1>10, Unselected
<1>12. QED
  BY <1>2, <1>8, <1>11 DEF SameGrid

LEMMA CancelKeeps ==
    ASSUME TgInv, Cancel
    PROVE  TgInv' /\ tg'.data = tg.data
<1>1. GridShape(tg) /\ IsGrid(tg)
  BY GridSound
<1>2. Gives([tg EXCEPT !.edit = NoCell])
  BY DEF Cancel
<1>3. [tg EXCEPT !.edit = NoCell] = [tg EXCEPT !.range = tg.range, !.edit = NoCell]
  <2>1. [tg EXCEPT !.range = tg.range] = tg
    BY <1>1 DEF IsGrid
  <2>2. QED
    BY <2>1
<1>4. tg.range \in [r1 : Int, c1 : Int, r2 : Int, c2 : Int]
  BY <1>1 DEF GridShape
<1>5. Gives([tg EXCEPT !.range = tg.range, !.edit = NoCell])
  BY <1>2, <1>3
<1> DEFINE R == tg.range
           e == NoCell
<1>6. R \in [r1 : Int, c1 : Int, r2 : Int, c2 : Int] /\ (e # NoCell => e = Cell(e[1], e[2]))
  BY <1>4
<1>7. Gives([tg EXCEPT !.range = R, !.edit = e])
  BY <1>5
<1> HIDE DEF R, e
<1>8. QED
  <2>1. TgInv' /\ tg'.data = tg.data /\ tg'.range = R /\ tg'.edit = e /\ SamePage(tg, tg')
    BY <1>6, <1>7, MovedKeeps, ZenonT(60)
  <2> QED
    BY <2>1

LEMMA ChooseKeeps ==
    ASSUME TgInv, Choose
    PROVE  /\ TgInv' /\ EditOnPage(tg) /\ ~InInput(tg)
           /\ \E t : tg'.data = [tg.data EXCEPT ![tg.edit[1]][tg.edit[2]] = t]
<1>1. GridShape(tg) /\ IsGrid(tg) /\ DataShape(tg.data) /\ DraftBelongs(tg)
  BY GridSound
<1>2. PICK t : Gives([tg EXCEPT !.data[tg.edit[1]][tg.edit[2]] = t])
  BY DEF Choose
<1>3. EditOnPage(tg) /\ ~InInput(tg) /\ tg.draft = NoDraft
  BY <1>1 DEF Choose, DraftBelongs
<1> DEFINE g == [tg EXCEPT !.data[tg.edit[1]][tg.edit[2]] = t]
<1>4. Gives(g)
  BY <1>2
<1>5. IsGrid(g)
  BY <1>1 DEF IsGrid
<1>6. /\ g.range = tg.range /\ g.edit = tg.edit /\ g.data = [tg.data EXCEPT ![tg.edit[1]][tg.edit[2]] = t]
      /\ g.loaded = tg.loaded /\ g.arr = tg.arr /\ g.draft = tg.draft
      /\ g.anchor = tg.anchor /\ g.cursor = tg.cursor /\ g.selected = tg.selected
      /\ g.first = tg.first /\ g.spans = tg.spans
  BY <1>1 DEF IsGrid, GridFields
<1> HIDE DEF g
<1>7. DraftKept(g) /\ DataShape(g.data)
  <2>1. DataShape(tg.data)
    BY <1>1
  <2>2. DataShape(g.data)
    BY <1>6, <2>1, DataPut, SMTT(30)
  <2>3. QED
    BY <1>3, <1>6, <2>2 DEF DraftKept
<1>8. /\ tg.range \in [r1 : Int, c1 : Int, r2 : Int, c2 : Int]
      /\ tg.edit # NoCell => tg.edit = Cell(tg.edit[1], tg.edit[2])
      /\ tg.loaded \in SUBSET Range(TgRows) /\ tg.arr \in TgArrangements
  BY <1>1 DEF GridShape
<1>9. TgInv' /\ SameGrid(g, tg')
  BY <1>4, <1>5, <1>6, <1>7, <1>8, Unselected
<1>10. QED
  BY <1>3, <1>6, <1>9 DEF SameGrid


(* Only the selection changes.                                             *)
LEMMA SelectedKeeps ==
    ASSUME TgInv, NEW g, IsGrid(g), Gives(g), SpanSound(g),
           g.range = tg.range, g.edit = tg.edit, g.data = tg.data, g.draft = tg.draft, g.typedIn = tg.typedIn,
           g.loaded = tg.loaded, g.arr = tg.arr, g.anchor \in Int, g.cursor \in Int
    PROVE  TgInv' /\ tg'.data = tg.data
<1>1. GridShape(tg)
  BY GridSound
<1>2. GridShape(g)
  BY <1>1 DEF GridShape
<1>3. DraftKept(g)
  BY DEF DraftKept
<1>4. TgInv' /\ SameGrid(g, tg')
  BY <1>2, <1>3, GridStep
<1>5. QED
  BY <1>4 DEF SameGrid

(* The rows from a to c are selected, a being where f is.                  *)
LEMMA SpannedKeeps ==
    ASSUME TgInv, NEW a \in Int, NEW c \in Int, NEW f,
           (Ungrouped(tg) /\ f # NoRow) => /\ a \in 1..Len(RowItems(tg)) /\ RowItems(tg)[a] = f
                                           /\ c \in 1..Len(RowItems(tg)),
           Gives([Spanned(tg, a, c) EXCEPT !.spans = TRUE, !.first = f])
    PROVE  TgInv' /\ tg'.data = tg.data
<1> DEFINE rows == RowItems(tg)
           S == Range(SubSeq(rows, Min({a, c}), Min({Max({a, c}), Len(rows)})))
           p == [tg EXCEPT !.selected = S, !.anchor = a, !.cursor = c]
           g == [p EXCEPT !.spans = TRUE, !.first = f]
<1>1. GridShape(tg) /\ IsGrid(tg)
  BY GridSound
<1>2. Gives(g)
  BY DEF Spanned
<1>3. rows \in Seq(Range(TgRows))
  BY <1>1, PageLists
<1>4. a \in 1..Len(rows) /\ c \in 1..Len(rows) => S = Spanning(rows, a, c)
  BY <1>3, SpanSelected
<1> HIDE DEF S
<1>5. IsGrid(p)
  BY <1>1 DEF IsGrid
<1>6. /\ p.range = tg.range /\ p.edit = tg.edit /\ p.data = tg.data /\ p.draft = tg.draft
      /\ p.typedIn = tg.typedIn /\ p.loaded = tg.loaded /\ p.arr = tg.arr
      /\ p.anchor = a /\ p.cursor = c /\ p.selected = S
  BY <1>1 DEF IsGrid, GridFields
<1> HIDE DEF p
<1>7. IsGrid(g)
  BY <1>5 DEF IsGrid
<1>8. /\ g.range = tg.range /\ g.edit = tg.edit /\ g.data = tg.data /\ g.draft = tg.draft
      /\ g.typedIn = tg.typedIn /\ g.loaded = tg.loaded /\ g.arr = tg.arr
      /\ g.anchor = a /\ g.cursor = c /\ g.selected = S /\ g.first = f
  BY <1>5, <1>6 DEF IsGrid, GridFields
<1> HIDE DEF g
<1>9. RowItems(g) = rows /\ Ungrouped(g) = Ungrouped(tg)
  BY <1>8 DEF RowItems, Ungrouped
<1> HIDE DEF rows
<1>10. SpanSound(g)
  <2>1. SUFFICES ASSUME Ungrouped(g), g.first # NoRow
                 PROVE  /\ g.anchor \in 1..Len(rows) /\ rows[g.anchor] = g.first
                        /\ g.cursor \in 1..Len(rows) /\ g.selected = Spanning(rows, g.anchor, g.cursor)
    BY <1>9 DEF SpanSound
  <2>2. a \in 1..Len(rows) /\ rows[a] = f /\ c \in 1..Len(rows)
    BY <1>8, <1>9, <2>1 DEF rows
  <2>3. QED
    BY <1>4, <1>8, <2>2
<1>11. QED
  BY <1>2, <1>7, <1>8, <1>10, SelectedKeeps

LEMMA RowClickKeeps ==
    ASSUME TgInv, RowClick
    PROVE  TgInv' /\ tg'.data = tg.data
<1>1. GridShape(tg) /\ IsGrid(tg) /\ SpanSound(tg)
  BY GridSound
<1>2. PICK i \in 1..Len(Shown(tg)) :
        \/ tg.anchor # 0 /\ Gives([Spanned(tg, tg.anchor, i) EXCEPT !.spans = TRUE])
        \/ Gives([tg EXCEPT !.selected = Toggled(@, Shown(tg)[i]), !.anchor = i, !.cursor = i,
                            !.first = Shown(tg)[i], !.spans = FALSE])
  BY DEF RowClick
<1>3. i \in Int /\ tg.anchor \in Int
  BY <1>1 DEF GridShape
<1>4. Ungrouped(tg) => Shown(tg) = RowItems(tg)
  BY <1>1, PageLists
<1>5. CASE Gives([Spanned(tg, tg.anchor, i) EXCEPT !.spans = TRUE])
  <2> DEFINE p == Spanned(tg, tg.anchor, i)
             h == [p EXCEPT !.spans = TRUE]
  <2>1. Gives(h)
    BY <1>5
  <2>2. IsGrid(p) /\ p.first = tg.first
    BY <1>1 DEF IsGrid, GridFields, Spanned
  <2> HIDE DEF p
  <2>3. IsGrid(h) /\ h.first = tg.first
    BY <2>2 DEF IsGrid, GridFields
  <2> DEFINE k == [h EXCEPT !.first = tg.first]
  <2>4. k = h
    <3> HIDE DEF h
    <3>1. QED
      BY <2>3 DEF IsGrid
  <2>5. k = [p EXCEPT !.spans = TRUE, !.first = tg.first]
    OBVIOUS
  <2>6. Gives([Spanned(tg, tg.anchor, i) EXCEPT !.spans = TRUE, !.first = tg.first])
    BY <2>1, <2>4, <2>5 DEF p
  <2>7. (Ungrouped(tg) /\ tg.first # NoRow) => /\ tg.anchor \in 1..Len(RowItems(tg))
                                               /\ RowItems(tg)[tg.anchor] = tg.first
                                               /\ i \in 1..Len(RowItems(tg))
    BY <1>1, <1>4 DEF SpanSound
  <2>8. QED
    BY <1>3, <2>6, <2>7, SpannedKeeps
<1>6. CASE Gives([tg EXCEPT !.selected = Toggled(@, Shown(tg)[i]), !.anchor = i, !.cursor = i,
                            !.first = Shown(tg)[i], !.spans = FALSE])
  <2> DEFINE r == Shown(tg)[i]
             g == [tg EXCEPT !.selected = Toggled(@, r), !.anchor = i, !.cursor = i, !.first = r, !.spans = FALSE]
  <2>1. Gives(g)
    BY <1>6
  <2> HIDE DEF r
  <2>2. IsGrid(g)
    BY <1>1 DEF IsGrid
  <2>3. /\ g.range = tg.range /\ g.edit = tg.edit /\ g.data = tg.data /\ g.draft = tg.draft
        /\ g.typedIn = tg.typedIn /\ g.loaded = tg.loaded /\ g.arr = tg.arr
        /\ g.anchor = i /\ g.cursor = i /\ g.first = r /\ g.spans = FALSE
    BY <1>1 DEF IsGrid, GridFields
  <2> HIDE DEF g
  <2>4. RowItems(g) = RowItems(tg) /\ Ungrouped(g) = Ungrouped(tg)
    BY <2>3 DEF RowItems, Ungrouped
  <2>5. SpanSound(g)
    <3>1. ASSUME Ungrouped(g) PROVE i \in 1..Len(RowItems(g)) /\ RowItems(g)[i] = r
      BY <1>4, <2>4, <3>1 DEF r
    <3>2. QED
      BY <2>3, <3>1 DEF SpanSound
  <2>6. QED
    BY <1>3, <2>1, <2>2, <2>3, <2>5, SelectedKeeps
<1>7. QED
  BY <1>2, <1>5, <1>6

LEMMA ExtendKeyKeeps ==
    ASSUME TgInv, ExtendKey
    PROVE  TgInv' /\ tg'.data = tg.data
<1>1. GridShape(tg) /\ SpanSound(tg)
  BY GridSound
<1> DEFINE rows == RowItems(tg)
           n == Len(rows)
           a == IF tg.anchor = 0 THEN 1 ELSE tg.anchor
           from == IF tg.cursor = 0 THEN a ELSE tg.cursor
           f == IF tg.anchor = 0 THEN rows[1] ELSE tg.first
<1>2. PICK d \in {1, -1} :
        Gives([Spanned(tg, a, Clamp(1, n, from + d)) EXCEPT
                 !.spans = TRUE, !.first = IF tg.anchor = 0 THEN rows[1] ELSE @])
  BY DEF ExtendKey
<1>3. tg.loaded # {}
  BY DEF ExtendKey
<1>4. rows \in Seq(Range(TgRows)) /\ Range(rows) = tg.loaded
  BY <1>1, PageLists
<1>5. n \in Nat /\ DOMAIN rows = 1..n
  BY <1>4, LenProperties
<1>6. n # 0
  <2>1. Range(rows) = {rows[i] : i \in 1..n}
    BY <1>5 DEF Range
  <2>2. ASSUME n = 0 PROVE FALSE
    <3> HIDE DEF n, rows
    <3>1. 1..n = {}
      BY <2>2
    <3>2. QED
      BY <1>3, <1>4, <2>1, <3>1
  <2>3. QED
    BY <2>2
<1>7. a \in Int /\ from + d \in Int
  BY <1>1, <1>2 DEF GridShape
<1> DEFINE c == Clamp(1, n, from + d)
<1>8. c \in 1..n
  <2> HIDE DEF n, from
  <2>1. QED
    BY <1>5, <1>6, <1>7, ClampedIn
<1>9. (Ungrouped(tg) /\ f # NoRow) => a \in 1..n /\ rows[a] = f
  <2>1. CASE tg.anchor = 0
    BY <1>5, <1>6, <2>1
  <2>2. CASE tg.anchor # 0
    BY <1>1, <2>2 DEF SpanSound
  <2>3. QED
    BY <2>1, <2>2
<1>10. Gives([Spanned(tg, a, c) EXCEPT !.spans = TRUE, !.first = f])
  <2> DEFINE p == Spanned(tg, a, c)
             h == [p EXCEPT !.spans = TRUE]
  <2>1. Gives([h EXCEPT !.first = IF tg.anchor = 0 THEN rows[1] ELSE @])
    BY <1>2
  <2>2. IsGrid(p) /\ p.first = tg.first
    <3> HIDE DEF a, c, n, rows
    <3>1. IsGrid(tg)
      BY GridSound
    <3>2. QED
      BY <3>1 DEF IsGrid, GridFields, Spanned
  <2> HIDE DEF p
  <2>3. h.first = tg.first
    BY <2>2 DEF IsGrid, GridFields
  <2> HIDE DEF h
  <2>4. Gives([h EXCEPT !.first = f])
    BY <2>1, <2>3
  <2>5. QED
    BY <2>4 DEF h, p
<1>11. c \in Int
  BY <1>5, <1>8
<1> HIDE DEF a, c, f
<1>12. QED
  BY <1>7, <1>8, <1>9, <1>10, <1>11, SpannedKeeps

LEMMA SelectAllKeeps ==
    ASSUME TgInv, SelectAll
    PROVE  TgInv' /\ tg'.data = tg.data
<1>1. GridShape(tg) /\ IsGrid(tg) /\ SpanSound(tg)
  BY GridSound
<1>2. PICK S : Gives([tg EXCEPT !.selected = S, !.spans = FALSE])
  BY DEF SelectAll
<1> DEFINE g == [tg EXCEPT !.selected = S, !.spans = FALSE]
<1>3. Gives(g)
  BY <1>2
<1>4. IsGrid(g)
  BY <1>1 DEF IsGrid
<1>5. /\ g.range = tg.range /\ g.edit = tg.edit /\ g.data = tg.data /\ g.draft = tg.draft
      /\ g.typedIn = tg.typedIn /\ g.loaded = tg.loaded /\ g.arr = tg.arr
      /\ g.anchor = tg.anchor /\ g.cursor = tg.cursor /\ g.first = tg.first /\ g.spans = FALSE
  BY <1>1 DEF IsGrid, GridFields
<1> HIDE DEF g
<1>6. RowItems(g) = RowItems(tg) /\ Ungrouped(g) = Ungrouped(tg)
  BY <1>5 DEF RowItems, Ungrouped
<1>7. SpanSound(g)
  BY <1>1, <1>5, <1>6 DEF SpanSound
<1>8. g.anchor \in Int /\ g.cursor \in Int
  BY <1>1, <1>5 DEF GridShape
<1>9. QED
  BY <1>3, <1>4, <1>5, <1>7, <1>8, SelectedKeeps


(* The rows and columns change, and nothing is written.                    *)
LEMMA ChangedKeeps ==
    ASSUME TgInv, NEW g, IsGrid(g), Gives(g),
           g.range = tg.range, g.data = tg.data, g.draft = tg.draft, g.typedIn = tg.typedIn,
           g.anchor = tg.anchor, g.cursor = tg.cursor, g.selected = tg.selected,
           g.loaded \in SUBSET Range(TgRows), g.arr \in TgArrangements,
           g.edit # NoCell => g.edit = Cell(g.edit[1], g.edit[2]),
           \/ g.first = NoRow
           \/ g.arr = tg.arr /\ g.loaded = tg.loaded /\ g.first = tg.first /\ g.spans = tg.spans
    PROVE  TgInv' /\ tg'.data = tg.data
<1>1. GridShape(tg) /\ DataShape(tg.data)
  BY GridSound
<1>2. tg.range \in [r1 : Int, c1 : Int, r2 : Int, c2 : Int]
  BY <1>1 DEF GridShape
<1>3. DraftKept(g)
  BY DEF DraftKept
<1>4. TgInv' /\ SameGrid(g, tg')
  BY <1>1, <1>2, <1>3, Unselected
<1>5. QED
  BY <1>4 DEF SameGrid

LEMMA ArrangeKeeps ==
    ASSUME TgInv, Arrange
    PROVE  TgInv' /\ tg'.data = tg.data
<1>1. GridShape(tg) /\ IsGrid(tg)
  BY GridSound
<1>2. PICK a \in TgArrangements : Gives(Rearranged([tg EXCEPT !.arr = a]))
  BY DEF Arrange
<1> DEFINE p == [tg EXCEPT !.arr = a]
           g == [p EXCEPT !.first = NoRow, !.spans = FALSE]
<1>3. Gives(g)
  BY <1>2 DEF Rearranged
<1>4. IsGrid(p)
  BY <1>1 DEF IsGrid
<1>5. /\ p.range = tg.range /\ p.data = tg.data /\ p.draft = tg.draft /\ p.typedIn = tg.typedIn
      /\ p.anchor = tg.anchor /\ p.cursor = tg.cursor /\ p.selected = tg.selected
      /\ p.loaded = tg.loaded /\ p.arr = a /\ p.edit = tg.edit
  BY <1>1 DEF IsGrid, GridFields
<1> HIDE DEF p
<1>6. IsGrid(g)
  BY <1>4 DEF IsGrid
<1>7. /\ g.range = tg.range /\ g.data = tg.data /\ g.draft = tg.draft /\ g.typedIn = tg.typedIn
      /\ g.anchor = tg.anchor /\ g.cursor = tg.cursor /\ g.selected = tg.selected
      /\ g.loaded = tg.loaded /\ g.arr = a /\ g.edit = tg.edit /\ g.first = NoRow
  BY <1>4, <1>5 DEF IsGrid, GridFields
<1> HIDE DEF g
<1>8. tg.loaded \in SUBSET Range(TgRows) /\ (tg.edit # NoCell => tg.edit = Cell(tg.edit[1], tg.edit[2]))
  BY <1>1 DEF GridShape
<1>9. QED
  BY <1>3, <1>6, <1>7, <1>8, ChangedKeeps

LEMMA NewRowKeeps ==
    ASSUME TgInv, NewRow
    PROVE  TgInv' /\ tg'.data = tg.data
<1>1. GridShape(tg) /\ IsGrid(tg)
  BY GridSound
<1>2. PICK f : Gives(Rearranged([tg EXCEPT !.loaded = @ \cup {TgNew}, !.edit = Cell(TgNew, f)]))
  BY DEF NewRow
<1> DEFINE e == Cell(TgNew, f)
           p == [tg EXCEPT !.loaded = @ \cup {TgNew}, !.edit = e]
           g == [p EXCEPT !.first = NoRow, !.spans = FALSE]
<1>3. Gives(g)
  BY <1>2 DEF Rearranged
<1>4. e = Cell(e[1], e[2])
  BY CellIs
<1> HIDE DEF e
<1>5. IsGrid(p)
  BY <1>1 DEF IsGrid
<1>6. /\ p.range = tg.range /\ p.data = tg.data /\ p.draft = tg.draft /\ p.typedIn = tg.typedIn
      /\ p.anchor = tg.anchor /\ p.cursor = tg.cursor /\ p.selected = tg.selected
      /\ p.loaded = tg.loaded \cup {TgNew} /\ p.arr = tg.arr /\ p.edit = e
  BY <1>1 DEF IsGrid, GridFields
<1> HIDE DEF p
<1>7. IsGrid(g)
  BY <1>5 DEF IsGrid
<1>8. /\ g.range = tg.range /\ g.data = tg.data /\ g.draft = tg.draft /\ g.typedIn = tg.typedIn
      /\ g.anchor = tg.anchor /\ g.cursor = tg.cursor /\ g.selected = tg.selected
      /\ g.loaded = tg.loaded \cup {TgNew} /\ g.arr = tg.arr /\ g.edit = e /\ g.first = NoRow
  BY <1>5, <1>6 DEF IsGrid, GridFields
<1> HIDE DEF g
<1>9. tg.loaded \cup {TgNew} \in SUBSET Range(TgRows) /\ tg.arr \in TgArrangements
  BY <1>1, TgAssumption DEF GridShape
<1>10. QED
  BY <1>3, <1>4, <1>7, <1>8, <1>9, ChangedKeeps

LEMMA RemoveRowKeeps ==
    ASSUME TgInv, RemoveRow
    PROVE  TgInv' /\ tg'.data = tg.data
<1>1. GridShape(tg) /\ IsGrid(tg)
  BY GridSound
<1>2. PICK r : Gives(Rearranged([tg EXCEPT !.loaded = @ \ {r}, !.gone = @ \cup {r}]))
  BY DEF RemoveRow
<1> DEFINE p == [tg EXCEPT !.loaded = @ \ {r}, !.gone = @ \cup {r}]
           g == [p EXCEPT !.first = NoRow, !.spans = FALSE]
<1>3. Gives(g)
  BY <1>2 DEF Rearranged
<1>4. IsGrid(p)
  BY <1>1 DEF IsGrid
<1>5. /\ p.range = tg.range /\ p.data = tg.data /\ p.draft = tg.draft /\ p.typedIn = tg.typedIn
      /\ p.anchor = tg.anchor /\ p.cursor = tg.cursor /\ p.selected = tg.selected
      /\ p.loaded = tg.loaded \ {r} /\ p.arr = tg.arr /\ p.edit = tg.edit
  BY <1>1 DEF IsGrid, GridFields
<1> HIDE DEF p
<1>6. IsGrid(g)
  BY <1>4 DEF IsGrid
<1>7. /\ g.range = tg.range /\ g.data = tg.data /\ g.draft = tg.draft /\ g.typedIn = tg.typedIn
      /\ g.anchor = tg.anchor /\ g.cursor = tg.cursor /\ g.selected = tg.selected
      /\ g.loaded = tg.loaded \ {r} /\ g.arr = tg.arr /\ g.edit = tg.edit /\ g.first = NoRow
  BY <1>4, <1>5 DEF IsGrid, GridFields
<1> HIDE DEF g
<1>8. /\ tg.loaded \ {r} \in SUBSET Range(TgRows) /\ tg.arr \in TgArrangements
      /\ tg.edit # NoCell => tg.edit = Cell(tg.edit[1], tg.edit[2])
  BY <1>1 DEF GridShape
<1>9. QED
  BY <1>3, <1>6, <1>7, <1>8, ChangedKeeps

LEMMA CollapseRowsKeeps ==
    ASSUME TgInv, CollapseRows
    PROVE  TgInv' /\ tg'.data = tg.data
<1>1. GridShape(tg) /\ IsGrid(tg)
  BY GridSound
<1>2. PICK v : Gives([tg EXCEPT !.collapsed = v])
  BY DEF CollapseRows
<1> DEFINE g == [tg EXCEPT !.collapsed = v]
<1>3. Gives(g)
  BY <1>2
<1>4. IsGrid(g)
  BY <1>1 DEF IsGrid
<1>5. /\ g.range = tg.range /\ g.data = tg.data /\ g.draft = tg.draft /\ g.typedIn = tg.typedIn
      /\ g.anchor = tg.anchor /\ g.cursor = tg.cursor /\ g.selected = tg.selected
      /\ g.loaded = tg.loaded /\ g.arr = tg.arr /\ g.edit = tg.edit /\ g.first = tg.first /\ g.spans = tg.spans
  BY <1>1 DEF IsGrid, GridFields
<1> HIDE DEF g
<1>6. /\ tg.loaded \in SUBSET Range(TgRows) /\ tg.arr \in TgArrangements
      /\ tg.edit # NoCell => tg.edit = Cell(tg.edit[1], tg.edit[2])
  BY <1>1 DEF GridShape
<1>7. QED
  BY <1>3, <1>4, <1>5, <1>6, ChangedKeeps

LEMMA ToggleExpandKeeps ==
    ASSUME TgInv, ToggleExpand
    PROVE  TgInv' /\ tg'.data = tg.data
<1>1. GridShape(tg) /\ IsGrid(tg)
  BY GridSound
<1>2. PICK v : Gives([tg EXCEPT !.expanded = v])
  BY DEF ToggleExpand
<1> DEFINE g == [tg EXCEPT !.expanded = v]
<1>3. Gives(g)
  BY <1>2
<1>4. IsGrid(g)
  BY <1>1 DEF IsGrid
<1>5. /\ g.range = tg.range /\ g.data = tg.data /\ g.draft = tg.draft /\ g.typedIn = tg.typedIn
      /\ g.anchor = tg.anchor /\ g.cursor = tg.cursor /\ g.selected = tg.selected
      /\ g.loaded = tg.loaded /\ g.arr = tg.arr /\ g.edit = tg.edit /\ g.first = tg.first /\ g.spans = tg.spans
  BY <1>1 DEF IsGrid, GridFields
<1> HIDE DEF g
<1>6. /\ tg.loaded \in SUBSET Range(TgRows) /\ tg.arr \in TgArrangements
      /\ tg.edit # NoCell => tg.edit = Cell(tg.edit[1], tg.edit[2])
  BY <1>1 DEF GridShape
<1>7. QED
  BY <1>3, <1>4, <1>5, <1>6, ChangedKeeps

LEMMA MoreChildrenKeeps ==
    ASSUME TgInv, MoreChildren
    PROVE  TgInv' /\ tg'.data = tg.data
<1>1. GridShape(tg) /\ IsGrid(tg)
  BY GridSound
<1>2. PICK v : Gives([tg EXCEPT !.windows = v])
  BY DEF MoreChildren
<1> DEFINE g == [tg EXCEPT !.windows = v]
<1>3. Gives(g)
  BY <1>2
<1>4. IsGrid(g)
  BY <1>1 DEF IsGrid
<1>5. /\ g.range = tg.range /\ g.data = tg.data /\ g.draft = tg.draft /\ g.typedIn = tg.typedIn
      /\ g.anchor = tg.anchor /\ g.cursor = tg.cursor /\ g.selected = tg.selected
      /\ g.loaded = tg.loaded /\ g.arr = tg.arr /\ g.edit = tg.edit /\ g.first = tg.first /\ g.spans = tg.spans
  BY <1>1 DEF IsGrid, GridFields
<1> HIDE DEF g
<1>6. /\ tg.loaded \in SUBSET Range(TgRows) /\ tg.arr \in TgArrangements
      /\ tg.edit # NoCell => tg.edit = Cell(tg.edit[1], tg.edit[2])
  BY <1>1 DEF GridShape
<1>7. QED
  BY <1>3, <1>4, <1>5, <1>6, ChangedKeeps

LEMMA HideFieldKeeps ==
    ASSUME TgInv, HideField
    PROVE  TgInv' /\ tg'.data = tg.data
<1>1. GridShape(tg) /\ IsGrid(tg)
  BY GridSound
<1>2. PICK v : Gives([tg EXCEPT !.hidden = v])
  BY DEF HideField
<1> DEFINE g == [tg EXCEPT !.hidden = v]
<1>3. Gives(g)
  BY <1>2
<1>4. IsGrid(g)
  BY <1>1 DEF IsGrid
<1>5. /\ g.range = tg.range /\ g.data = tg.data /\ g.draft = tg.draft /\ g.typedIn = tg.typedIn
      /\ g.anchor = tg.anchor /\ g.cursor = tg.cursor /\ g.selected = tg.selected
      /\ g.loaded = tg.loaded /\ g.arr = tg.arr /\ g.edit = tg.edit /\ g.first = tg.first /\ g.spans = tg.spans
  BY <1>1 DEF IsGrid, GridFields
<1> HIDE DEF g
<1>6. /\ tg.loaded \in SUBSET Range(TgRows) /\ tg.arr \in TgArrangements
      /\ tg.edit # NoCell => tg.edit = Cell(tg.edit[1], tg.edit[2])
  BY <1>1 DEF GridShape
<1>7. QED
  BY <1>3, <1>4, <1>5, <1>6, ChangedKeeps

LEMMA TgInitInv == TgInit => TgInv
<1> SUFFICES ASSUME TgInit PROVE TgInv
  OBVIOUS
<1> DEFINE data == [r \in Range(TgRows) |-> [f \in Range(TgFields) |-> Null]]
<1>1. PICK a \in TgArrangements :
        tg = [loaded |-> Range(TgRows) \ {TgNew}, gone |-> {}, arr |-> a, collapsed |-> {},
              expanded |-> {}, windows |-> <<>>, hidden |-> {}, data |-> data,
              edit |-> NoCell, draft |-> NoDraft, typedIn |-> NoCell,
              range |-> NoRange, dragging |-> FALSE, again |-> FALSE, copied |-> {},
              selected |-> {}, anchor |-> 0, cursor |-> 0, first |-> NoRow, spans |-> FALSE,
              ops |-> TgOps]
  BY DEF TgInit
<1>2. DataShape(data)
  BY DEF DataShape
<1> HIDE DEF data
<1>3. IsGrid(tg)
  BY <1>1 DEF IsGrid, GridFields
<1>4. /\ tg.loaded = Range(TgRows) \ {TgNew} /\ tg.arr = a /\ tg.data = data
      /\ tg.edit = NoCell /\ tg.draft = NoDraft /\ tg.range = NoRange
      /\ tg.anchor = 0 /\ tg.cursor = 0 /\ tg.first = NoRow
  BY <1>1
<1>5. GridShape(tg)
  BY <1>2, <1>3, <1>4 DEF GridShape, NoRange
<1>6. DraftBelongs(tg)
  BY <1>4 DEF DraftBelongs, InInput, EditOnPage
<1>7. SpanSound(tg)
  BY <1>4 DEF SpanSound
<1>8. QED
  BY <1>5, <1>6, <1>7 DEF TgInv, TgSound

(* What a step writes: the text in the input, to its cell, or a choice, to *)
(* a cell that has no input.                                               *)
GridWrites ==
    \/ tg'.data = tg.data
    \/ InInput(tg) /\ tg'.data = [tg.data EXCEPT ![tg.edit[1]][tg.edit[2]] = tg.draft]
    \/ /\ EditOnPage(tg) /\ ~InInput(tg)
       /\ \E t : tg'.data = [tg.data EXCEPT ![tg.edit[1]][tg.edit[2]] = t]

LEMMA TgNextKeeps ==
    ASSUME TgInv, TgNext
    PROVE  TgInv' /\ GridWrites
<1>1. CASE Mouse
  <2>1. PICK r \in 1..Len(Shown(tg)), c \in 1..Len(DisplayFields(tg)) :
          Press(r, c) \/ MoveOver(r, c) \/ Release(r, c) \/ DoubleClick(r, c)
    BY <1>1 DEF Mouse
  <2>2. r \in Int /\ c \in Int
    OBVIOUS
  <2>3. QED
    BY <2>1, <2>2, PressKeeps, MoveOverKeeps, ReleaseKeeps, DoubleClickKeeps DEF GridWrites
<1>2. CASE GridKeys
  BY <1>2, StepKeyKeeps, EnterKeyKeeps, EscapeKeyKeeps, CopyKeyKeeps DEF GridKeys, GridWrites
<1>3. CASE CellEditing
  BY <1>3, TypeKeeps, FinishKeeps, CancelKeeps, ChooseKeeps DEF CellEditing, GridWrites
<1>4. CASE Selecting
  BY <1>4, RowClickKeeps, ExtendKeyKeeps, SelectAllKeeps DEF Selecting, GridWrites
<1>5. CASE Changing
  BY <1>5, ArrangeKeeps, CollapseRowsKeeps, ToggleExpandKeeps, MoreChildrenKeeps, HideFieldKeeps,
     NewRowKeeps, RemoveRowKeeps DEF Changing, GridWrites
<1>6. QED
  BY <1>1, <1>2, <1>3, <1>4, <1>5 DEF TgNext

LEMMA TgNextInv == TgInv /\ [TgNext]_tg => TgInv'
<1>1. ASSUME TgInv, UNCHANGED tg PROVE TgInv'
  BY <1>1 DEF TgInv
<1>2. QED
  BY <1>1, TgNextKeeps

(* What the properties of the grid say of one step, or of one state.       *)
LEMMA TgTypedStays ==
    TgInv /\ [TgNext]_tg =>
        [\A r \in Range(TgRows), f \in Range(TgFields) :
            (TgKind[f] = "text" /\ tg.data[r][f] # tg'.data[r][f])
                => tg.typedIn = Cell(r, f) /\ tg'.data[r][f] = tg.draft]_tg
<1> SUFFICES ASSUME TgInv, TgNext, NEW r \in Range(TgRows), NEW f \in Range(TgFields),
                    TgKind[f] = "text", tg.data[r][f] # tg'.data[r][f]
             PROVE  tg.typedIn = Cell(r, f) /\ tg'.data[r][f] = tg.draft
  OBVIOUS
<1>1. GridShape(tg) /\ DataShape(tg.data) /\ DraftBelongs(tg)
  BY GridSound
<1>2. GridWrites
  BY TgNextKeeps
<1>3. CASE InInput(tg) /\ tg'.data = [tg.data EXCEPT ![tg.edit[1]][tg.edit[2]] = tg.draft]
  <2>1. r = tg.edit[1] /\ f = tg.edit[2] /\ tg'.data[r][f] = tg.draft
    BY <1>1, <1>3, DataPut
  <2>2. tg.typedIn = tg.edit
    BY <1>1, <1>3, <2>1 DEF DraftBelongs
  <2>3. tg.edit = Cell(tg.edit[1], tg.edit[2])
    BY <1>1, <1>3 DEF GridShape, InInput, EditOnPage
  <2>4. QED
    BY <2>1, <2>2, <2>3
<1>4. ASSUME EditOnPage(tg), ~InInput(tg), NEW t, tg'.data = [tg.data EXCEPT ![tg.edit[1]][tg.edit[2]] = t]
      PROVE  FALSE
  <2>1. f = tg.edit[2]
    BY <1>1, <1>4, DataPut
  <2>2. QED
    BY <1>4, <2>1 DEF InInput
<1>5. QED
  BY <1>2, <1>3, <1>4 DEF GridWrites

LEMMA TgKeysFollow ==
    ASSUME TgInv, tg.arr.mode = "flat", Shown(tg) # <<>>, DisplayFields(tg) # <<>>
    PROVE  /\ StepKey => tg'.range.r2 \in DOMAIN Shown(tg') /\ tg'.range.c2 \in DOMAIN DisplayFields(tg')
           /\ EnterKey => HighlightedIn(tg', Place(Shown(tg'), tg'.edit[1]), Place(DisplayFields(tg'), tg'.edit[2]))
BY StepKeyKeeps, EnterKeyKeeps

LEMMA TgSpans ==
    ASSUME TgInv
    PROVE  (tg.spans /\ tg.first # NoRow /\ tg.arr = [order |-> TgRows, mode |-> "flat"]) =>
              LET rows == Shown(tg)
                  i == Place(rows, tg.first)
                  j == tg.cursor
              IN tg.selected = {rows[k] : k \in Min({i, j})..Max({i, j})}
<1> SUFFICES ASSUME tg.spans, tg.first # NoRow, Ungrouped(tg)
             PROVE  tg.selected = Spanning(Shown(tg), Place(Shown(tg), tg.first), tg.cursor)
  BY DEF Ungrouped, Spanning
<1> DEFINE rows == RowItems(tg)
<1>1. GridShape(tg) /\ SpanSound(tg)
  BY GridSound
<1>2. rows \in Seq(Range(TgRows)) /\ IsInjective(rows) /\ Shown(tg) = rows
  BY <1>1, PageLists
<1>3. /\ tg.anchor \in 1..Len(rows) /\ rows[tg.anchor] = tg.first
      /\ tg.selected = Spanning(rows, tg.anchor, tg.cursor)
  BY <1>1 DEF SpanSound
<1> HIDE DEF rows
<1>4. Place(rows, tg.first) = tg.anchor
  BY <1>2, <1>3, PlacedOnce
<1>5. QED
  BY <1>2, <1>3, <1>4

(* The grid stays sound: what is in the input is the cell's value or was   *)
(* typed into that cell, and the anchor of a selection is the row clicked  *)
(* first as long as the rows stay (CellEditor, handleRowClick).            *)
THEOREM GridInvariant == TgSpec => []TgInv
<1>1. QED
  BY TgInitInv, TgNextInv, PTL DEF TgSpec

-----------------------------------------------------------------------------
(* The rows of a view.                                                     *)

(* Of an operator and its opposite a cell satisfies one.                   *)
LEMMA OneOfOpposites ==
    ASSUME NEW f, NEW v, NEW t, NEW op \in DOMAIN Opposite
    PROVE  Matches(f, v, op, t) # Matches(f, v, Opposite[op], t)
<1>1. op \in {"equals", "contains", "empty", "eq", "is", "checked"}
  BY DEF Opposite
<1>2. CASE op = "contains"
  <2>1. Matches(f, v, op, t) = Has(f, v, t) /\ Matches(f, v, Opposite[op], t) = Lacks(f, v, t)
    BY <1>2 DEF Matches, Opposite
  <2>2. Has(f, v, t) # Lacks(f, v, t)
    BY DEF Has, Lacks, Includes
  <2>3. QED
    BY <2>1, <2>2
<1>3. CASE op = "empty"
  <2>1. Matches(f, v, op, t) = IsEmpty(f, v) /\ Matches(f, v, Opposite[op], t) = ~IsEmpty(f, v)
    BY <1>3 DEF Matches, Opposite
  <2>2. IsEmpty(f, v) \in BOOLEAN
    BY DEF IsEmpty
  <2>3. QED
    BY <2>1, <2>2
<1>4. CASE op = "equals"
  BY <1>4 DEF Matches, Opposite
<1>5. CASE op = "eq"
  BY <1>5 DEF Matches, Opposite
<1>6. CASE op = "is"
  BY <1>6 DEF Matches, Opposite
<1>7. CASE op = "checked"
  BY <1>7 DEF Matches, Opposite
<1>8. QED
  BY <1>1, <1>2, <1>3, <1>4, <1>5, <1>6, <1>7

=============================================================================
