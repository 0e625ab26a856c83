------------------------------ MODULE ShellProofs ------------------------------
(***************************************************************************)
(* Theorems about what surrounds the views of a database in a browser tab: *)
(* the workspace it works in, the number on its bell, and who else is here. *)
(***************************************************************************)
EXTENDS Workspaces, UnreadCount, Presence, Functions, BoundedSets, SequenceTheorems, FiniteSetTheorems, TLAPS

-----------------------------------------------------------------------------
(* The workspace of a tab.                                                 *)

WkSpaces == UNION {Range(WkOf[u]) : u \in WkUsers}
WkKeys == {Memberships, Databases} \cup {Spaces(w) : w \in WkSpaces \cup {Null}}
WkFetches == [key : WkKeys, step : {"importing", "sent"}, dropped : BOOLEAN, tried : BOOLEAN,
              user : WkUsers \cup {Null}, header : WkSpaces \cup {Null}]
WkCaches == {c \in UNION {[K -> Range(WkOf) \cup WkSpaces] : K \in SUBSET WkKeys} :
               Memberships \in DOMAIN c => c[Memberships] \in Range(WkOf)}
WkShells == [token : WkUsers \cup {Null}, stored : WkSpaces \cup {Null},
             page : {"login", "home", "site"}, active : WkSpaces \cup {Null},
             home : WkSpaces \cup {Null, Closed}, cache : WkCaches, fetches : SUBSET WkFetches,
             failed : SUBSET WkKeys, users : SUBSET WkUsers, ops : Nat]

(* Nobody has used the browser.                                            *)
LoggedOut(s) ==
    /\ s.token = Null /\ s.stored = Null /\ s.active = Null /\ s.home = Null
    /\ s.page = "login" /\ s.cache = <<>> /\ s.fetches = {}

(* Only u has.  What the shell shows is what is stored, and a query whose  *)
(* answer is waited for asks for nothing else.                             *)
UsedBy(u, s) ==
    /\ s.token \in {u, Null} /\ s.stored \in Range(WkOf[u]) \cup {Null}
    /\ s.active \in {s.stored, Null} /\ s.home \in {s.stored, Null, Closed}
    /\ s.active = Null => s.stored \in {Head(WkOf[u]), Null}
    /\ Memberships \in DOMAIN s.cache => s.cache[Memberships] = WkOf[u] /\ s.stored # Null
    /\ Databases \in DOMAIN s.cache =>
         s.cache[Databases] = IF s.stored = Null THEN Head(WkOf[u]) ELSE s.stored
    /\ \A w \in Range(WkOf[u]) : Spaces(w) \in DOMAIN s.cache => s.cache[Spaces(w)] = w
    /\ \A f \in s.fetches :
         /\ f.user \in {u, Null}
         /\ ~f.dropped => /\ \A w \in Range(WkOf[u]) : f.key = Spaces(w) => s.stored = w
                          /\ f.header \in {s.stored, Null}

WkSound(s) ==
    /\ s \in WkShells /\ IsFiniteSet(s.users)
    /\ s.users = {} => LoggedOut(s)
    /\ \A u \in WkUsers : s.users = {u} => UsedBy(u, s)

WkInv == WkSound(wk)

(* The keys of the three kinds of queries tell them apart, and those kept  *)
(* by a workspace tell which.                                              *)
LEMMA KeysDiffer ==
    /\ Memberships # Databases
    /\ \A w : Spaces(w) # Memberships /\ Spaces(w) # Databases
    /\ \A v, w : Spaces(v) = Spaces(w) => v = w
<1>1. Memberships[1] # Databases[1]
  BY DEF Memberships, Databases
<1>2. \A w : Spaces(w)[1] # Memberships[1] /\ Spaces(w)[1] # Databases[1]
  BY DEF Memberships, Databases, Spaces
<1>3. \A w : Spaces(w)[2] = w
  BY DEF Spaces
<1>4. \A v, w : Spaces(v) = Spaces(w) => v = w
  <2>1. SUFFICES ASSUME NEW v, NEW w, Spaces(v) = Spaces(w) PROVE v = w
    OBVIOUS
  <2>2. Spaces(v)[2] = Spaces(w)[2]
    BY <2>1
  <2> QED
    BY <1>3, <2>2
<1>5. QED
  BY <1>1, <1>2, <1>4

(* Every user has a first workspace, and no workspace is Null or Closed.   *)
LEMMA OfAUser ==
    ASSUME NEW u \in WkUsers
    PROVE  /\ Head(WkOf[u]) \in Range(WkOf[u])
           /\ Range(WkOf[u]) \subseteq WkSpaces
           /\ WkOf[u] \in Range(WkOf)
<1>1. PICK S : WkOf[u] \in Seq(S) /\ WkOf[u] # <<>>
  BY WkAssumption
<1>2. 1 \in DOMAIN WkOf[u] /\ Head(WkOf[u]) = WkOf[u][1]
  BY <1>1
<1>3. Head(WkOf[u]) \in Range(WkOf[u])
  BY <1>2 DEF Range
<1>4. WkOf[u] \in Range(WkOf)
  BY WkAssumption DEF Range
<1>5. QED
  BY <1>3, <1>4 DEF WkSpaces

LEMMA NoSpaceIsNull ==
    /\ Null \notin WkSpaces /\ Closed \notin WkSpaces /\ Closed # Null
    /\ \A m \in Range(WkOf) : Head(m) \in WkSpaces
<1>1. \A m \in Range(WkOf) : \E u \in WkUsers : m = WkOf[u]
  BY WkAssumption DEF Range
<1>2. \A m \in Range(WkOf) : Head(m) \in WkSpaces
  BY <1>1, OfAUser
<1>3. QED
  BY <1>2, WkAssumption DEF WkSpaces

(* What is kept stays kept when an answer is added.                        *)
LEMMA CacheIsKept ==
    ASSUME NEW s \in WkShells, NEW key \in WkKeys,
           NEW data \in Range(WkOf) \cup WkSpaces,
           key = Memberships => data \in Range(WkOf)
    PROVE  LET c == Stored(s, key, data).cache
           IN /\ Stored(s, key, data) \in WkShells
              /\ Stored(s, key, data) = [s EXCEPT !.cache = c]
              /\ DOMAIN c = DOMAIN s.cache \cup {key} /\ c[key] = data
              /\ \A k \in DOMAIN s.cache \ {key} : c[k] = s.cache[k]
<1> DEFINE c == [k \in DOMAIN s.cache \cup {key} |-> IF k = key THEN data ELSE s.cache[k]]
<1>1. s.cache \in WkCaches
  BY DEF WkShells
<1>2. PICK K \in SUBSET WkKeys : s.cache \in [K -> Range(WkOf) \cup WkSpaces]
  BY <1>1 DEF WkCaches
<1>3. DOMAIN c = K \cup {key} /\ DOMAIN s.cache = K
  BY <1>2
<1>4. c \in [K \cup {key} -> Range(WkOf) \cup WkSpaces]
  BY <1>2
<1>5. Memberships \in DOMAIN c => c[Memberships] \in Range(WkOf)
  BY <1>1, <1>2, <1>3 DEF WkCaches
<1>6. c \in WkCaches
  <2>1. K \cup {key} \in SUBSET WkKeys
    OBVIOUS
  <2> QED
    BY <1>4, <1>5, <2>1 DEF WkCaches
<1>7. Stored(s, key, data) = [s EXCEPT !.cache = c]
  BY DEF Stored
<1>8. c[key] = data /\ \A k \in DOMAIN s.cache \ {key} : c[k] = s.cache[k]
  OBVIOUS
<1> HIDE DEF c
<1>9. [s EXCEPT !.cache = c] \in WkShells /\ [s EXCEPT !.cache = c].cache = c
  BY <1>6 DEF WkShells
<1>10. QED
  BY <1>3, <1>7, <1>8, <1>9

(* What the shell shows is a workspace, or none.                           *)
LEMMA SelectedType ==
    ASSUME NEW s \in WkShells
    PROVE  Selected(s) \in WkSpaces \cup {Null} /\ Queries(s) \subseteq WkKeys
<1>1. s.active \in WkSpaces \cup {Null} /\ s.home \in WkSpaces \cup {Null, Closed} /\ s.cache \in WkCaches
  BY DEF WkShells
<1>2. Memberships \in DOMAIN s.cache => s.cache[Memberships] \in Range(WkOf)
  BY <1>1 DEF WkCaches
<1>3. Selected(s) \in WkSpaces \cup {Null}
  BY <1>1, <1>2, NoSpaceIsNull DEF Selected
<1>4. {Spaces(s.home)} \ {Spaces(Closed)} \subseteq WkKeys
  BY <1>1 DEF WkKeys
<1>5. Spaces(Selected(s)) \in WkKeys
  BY <1>3 DEF WkKeys
<1>6. Memberships \in WkKeys /\ Databases \in WkKeys
  BY DEF WkKeys
<1>7. QED
  BY <1>3, <1>4, <1>5, <1>6 DEF Queries


LEMMA FetchType ==
    ASSUME NEW key \in WkKeys
    PROVE  /\ Fetch(key) \in WkFetches
           /\ [Fetch(key) EXCEPT !.tried = TRUE] \in WkFetches
BY DEF Fetch, WkFetches

(* Rendering the shell only adds queries.                                  *)
LEMMA RenderedType ==
    ASSUME NEW s \in WkShells
    PROVE  /\ RenderedShell(s) \in WkShells
           /\ \E K \in SUBSET Queries(s) :
                RenderedShell(s) = [s EXCEPT !.fetches = s.fetches \cup {Fetch(key) : key \in K}]
<1> DEFINE K == Queries(s) \ (DOMAIN s.cache \cup Fetched(s) \cup s.failed)
<1> DEFINE F == s.fetches \cup {Fetch(key) : key \in K}
<1>1. RenderedShell(s) = [s EXCEPT !.fetches = F]
  BY DEF RenderedShell
<1>2. F \in SUBSET WkFetches
  <2>1. s.fetches \in SUBSET WkFetches
    BY DEF WkShells
  <2> QED
    BY <2>1, SelectedType, FetchType
<1>3. K \in SUBSET Queries(s)
  OBVIOUS
<1>4. \E J \in SUBSET Queries(s) :
        RenderedShell(s) = [s EXCEPT !.fetches = s.fetches \cup {Fetch(key) : key \in J}]
  BY <1>1, <1>3
<1> HIDE DEF F
<1>5. [s EXCEPT !.fetches = F] \in WkShells
  BY <1>2 DEF WkShells
<1>6. QED
  BY <1>1, <1>4, <1>5

(* A query on the page of the only user is one for the workspace stored.   *)
LEMMA QueriesOfUse ==
    ASSUME NEW u \in WkUsers, NEW s \in WkShells, UsedBy(u, s),
           NEW w \in Range(WkOf[u]), Spaces(w) \in Queries(s)
    PROVE  s.stored = w
<1>1. w # Null /\ w # Closed
  BY OfAUser, NoSpaceIsNull
<1>2. Spaces(w) = Spaces(Selected(s)) \/ Spaces(w) = Spaces(s.home)
  BY KeysDiffer DEF Queries
<1>3. w = Selected(s) \/ w = s.home
  BY <1>2, KeysDiffer
<1>4. CASE w = s.home
  BY <1>1, <1>4 DEF UsedBy
<1>5. CASE w = Selected(s)
  <2>1. CASE s.active # Null
    BY <1>1, <1>5, <2>1 DEF UsedBy, Selected
  <2>2. CASE s.active = Null
    BY <1>1, <1>5, <2>2 DEF UsedBy, Selected
  <2> QED
    BY <2>1, <2>2
<1>6. QED
  BY <1>3, <1>4, <1>5

(* More queries of its page leave a tab to its only user.                  *)
LEMMA QueriedUse ==
    ASSUME NEW u \in WkUsers, NEW s \in WkShells, UsedBy(u, s),
           NEW K \in SUBSET Queries(s)
    PROVE  UsedBy(u, [s EXCEPT !.fetches = s.fetches \cup {Fetch(key) : key \in K}])
<1> DEFINE F == s.fetches \cup {Fetch(key) : key \in K}
<1> DEFINE t == [s EXCEPT !.fetches = F]
<1>1. /\ t.token = s.token /\ t.stored = s.stored /\ t.active = s.active /\ t.home = s.home
      /\ t.cache = s.cache /\ t.fetches = F
  BY DEF WkShells
<1>2. \A f \in F :
         /\ f.user \in {u, Null}
         /\ ~f.dropped => /\ \A w \in Range(WkOf[u]) : f.key = Spaces(w) => s.stored = w
                          /\ f.header \in {s.stored, Null}
  <2>1. SUFFICES ASSUME NEW f \in F
                 PROVE  /\ f.user \in {u, Null}
                        /\ ~f.dropped => /\ \A w \in Range(WkOf[u]) : f.key = Spaces(w) => s.stored = w
                                         /\ f.header \in {s.stored, Null}
    OBVIOUS
  <2>2. CASE f \in s.fetches
    BY <2>2 DEF UsedBy
  <2>3. CASE f \notin s.fetches
    <3>1. PICK key \in K : f = Fetch(key)
      BY <2>3
    <3>2. f.key = key /\ f.user = Null /\ f.header = Null
      BY <3>1 DEF Fetch
    <3>3. \A w \in Range(WkOf[u]) : f.key = Spaces(w) => s.stored = w
      BY <3>2, QueriesOfUse
    <3> QED
      BY <3>2, <3>3
  <2> QED
    BY <2>2, <2>3
<1> HIDE DEF F
<1> HIDE DEF t
<1>3. UsedBy(u, t)
  BY <1>1, <1>2 DEF UsedBy
<1>4. QED
  BY <1>3 DEF t, F


(* What InShell counts down is nothing the invariant speaks of.            *)
LEMMA CountedSound ==
    ASSUME NEW s, WkSound(s), s.ops > 0
    PROVE  WkSound([s EXCEPT !.ops = @ - 1])
<1> DEFINE t == [s EXCEPT !.ops = @ - 1]
<1>1. s.ops - 1 \in Nat /\ s \in WkShells
  <2>1. s \in WkShells
    BY DEF WkSound
  <2>2. s.ops \in Nat
    BY <2>1 DEF WkShells
  <2> QED
    BY <2>1, <2>2
<1>2. /\ t.token = s.token /\ t.stored = s.stored /\ t.active = s.active /\ t.home = s.home
      /\ t.cache = s.cache /\ t.fetches = s.fetches /\ t.page = s.page /\ t.users = s.users
      /\ t \in WkShells
  BY <1>1 DEF WkShells
<1> HIDE DEF t
<1>3. LoggedOut(s) => LoggedOut(t)
  BY <1>2 DEF LoggedOut
<1>4. \A u \in WkUsers : UsedBy(u, s) => UsedBy(u, t)
  BY <1>2 DEF UsedBy
<1>5. WkSound(t)
  BY <1>2, <1>3, <1>4 DEF WkSound
<1>6. QED
  BY <1>5 DEF t

LEMMA RenderedSound ==
    ASSUME NEW s, WkSound(s), s.users # {}
    PROVE  WkSound(RenderedShell(s)) /\ RenderedShell(s).ops = s.ops
<1> DEFINE t == RenderedShell(s)
<1>1. s \in WkShells /\ IsFiniteSet(s.users)
  BY DEF WkSound
<1>2. PICK K \in SUBSET Queries(s) :
        t = [s EXCEPT !.fetches = s.fetches \cup {Fetch(key) : key \in K}]
  BY <1>1, RenderedType
<1>3. t \in WkShells
  BY <1>1, RenderedType
<1>4. \A u \in WkUsers : UsedBy(u, s) => UsedBy(u, t)
  BY <1>1, <1>2, QueriedUse
<1> HIDE DEF t
<1>5. t.users = s.users /\ t.ops = s.ops
  BY <1>1, <1>2 DEF WkShells
<1>6. WkSound(t)
  BY <1>1, <1>3, <1>4, <1>5 DEF WkSound
<1>7. QED
  BY <1>5, <1>6 DEF t

(* A page mounts its shell with what is stored.                            *)
LEMMA VisitSound ==
    ASSUME NEW s, WkSound(s), s.users # {}, NEW page \in {"home", "site"}
    PROVE  WkSound(Visit(s, page)) /\ Visit(s, page).ops = s.ops
<1> DEFINE t == [s EXCEPT !.page = page, !.active = s.stored, !.home = s.stored, !.failed = {}]
<1>1. s \in WkShells /\ IsFiniteSet(s.users)
  BY DEF WkSound
<1>2. /\ t.token = s.token /\ t.stored = s.stored /\ t.active = s.stored /\ t.home = s.stored
      /\ t.cache = s.cache /\ t.fetches = s.fetches /\ t.users = s.users /\ t.ops = s.ops
      /\ t \in WkShells
  BY <1>1 DEF WkShells
<1>3. Visit(s, page) = RenderedShell(t)
  BY DEF Visit
<1> HIDE DEF t
<1>4. \A u \in WkUsers : UsedBy(u, s) => UsedBy(u, t)
  BY <1>2 DEF UsedBy
<1>5. WkSound(t) /\ t.users # {}
  BY <1>1, <1>2, <1>4 DEF WkSound
<1>6. QED
  BY <1>2, <1>3, <1>5, RenderedSound

(* Queries that end, or are asked again, are queries of the only user.     *)
LEMMA FetchedSound ==
    ASSUME NEW s, WkSound(s), s.users # {}, NEW F \in SUBSET WkFetches,
           \A u \in WkUsers : \A f \in F :
             s.users = {u} =>
               /\ f.user \in {u, Null}
               /\ ~f.dropped => /\ \A w \in Range(WkOf[u]) : f.key = Spaces(w) => s.stored = w
                                /\ f.header \in {s.stored, Null}
    PROVE  /\ WkSound([s EXCEPT !.fetches = F])
           /\ [s EXCEPT !.fetches = F].ops = s.ops /\ [s EXCEPT !.fetches = F].users = s.users
<1> DEFINE t == [s EXCEPT !.fetches = F]
<1>1. s \in WkShells /\ IsFiniteSet(s.users)
  BY DEF WkSound
<1>2. /\ t.token = s.token /\ t.stored = s.stored /\ t.active = s.active /\ t.home = s.home
      /\ t.cache = s.cache /\ t.fetches = F /\ t.users = s.users /\ t.ops = s.ops
      /\ t \in WkShells
  BY <1>1 DEF WkShells
<1> HIDE DEF t
<1>3. \A u \in WkUsers : s.users = {u} => UsedBy(u, t)
  <2>1. SUFFICES ASSUME NEW u \in WkUsers, s.users = {u} PROVE UsedBy(u, t)
    OBVIOUS
  <2>2. UsedBy(u, s)
    BY <2>1 DEF WkSound
  <2> QED
    BY <1>2, <2>1, <2>2 DEF UsedBy
<1>4. WkSound(t)
  BY <1>1, <1>2, <1>3 DEF WkSound
<1>5. QED
  BY <1>2, <1>4 DEF t

(* What the invariant says of the queries under way.                       *)
LEMMA SoundFetches ==
    ASSUME NEW s, WkSound(s), NEW f \in s.fetches
    PROVE  /\ s.users # {} /\ f \in WkFetches
           /\ \A u \in WkUsers : s.users = {u} =>
                /\ f.user \in {u, Null}
                /\ ~f.dropped => /\ \A w \in Range(WkOf[u]) : f.key = Spaces(w) => s.stored = w
                                 /\ f.header \in {s.stored, Null}
<1>1. s \in WkShells
  BY DEF WkSound
<1>2. f \in WkFetches
  BY <1>1 DEF WkShells
<1>3. s.users # {}
  BY DEF WkSound, LoggedOut
<1>4. \A u \in WkUsers : s.users = {u} => UsedBy(u, s)
  BY DEF WkSound
<1>5. QED
  BY <1>2, <1>3, <1>4 DEF UsedBy

LEMMA SendInv ==
    ASSUME NEW f \in wk.fetches, WkInv, Send(f)
    PROVE  WkInv'
<1> DEFINE g == [f EXCEPT !.step = "sent", !.user = wk.token, !.header = wk.stored]
<1> DEFINE F == (wk.fetches \ {f}) \cup {g}
<1>1. WkSound(wk) /\ wk \in WkShells /\ wk.users # {} /\ f \in WkFetches
  BY SoundFetches DEF WkInv, WkSound
<1>2. /\ wk.token \in WkUsers \cup {Null} /\ wk.stored \in WkSpaces \cup {Null}
      /\ wk.fetches \subseteq WkFetches
  BY <1>1 DEF WkShells
<1>3. g \in WkFetches /\ g.user = wk.token /\ g.header = wk.stored /\ g.dropped = f.dropped /\ g.key = f.key
  BY <1>1, <1>2 DEF WkFetches
<1>4. wk' = [wk EXCEPT !.fetches = F]
  BY DEF Send
<1> HIDE DEF g
<1>5. ASSUME NEW u \in WkUsers, NEW e \in F, wk.users = {u}
      PROVE  /\ e.user \in {u, Null}
             /\ ~e.dropped => /\ \A w \in Range(WkOf[u]) : e.key = Spaces(w) => wk.stored = w
                              /\ e.header \in {wk.stored, Null}
  <2>1. CASE e \in wk.fetches
    BY <1>1, <1>5, <2>1, SoundFetches
  <2>2. CASE e = g
    <3>1. wk.token \in {u, Null}
      BY <1>1, <1>5 DEF WkSound, UsedBy
    <3>2. ~f.dropped => \A w \in Range(WkOf[u]) : f.key = Spaces(w) => wk.stored = w
      BY <1>1, <1>5, SoundFetches
    <3> QED
      BY <1>3, <2>2, <3>1, <3>2
  <2> QED
    BY <2>1, <2>2
<1>6. F \in SUBSET WkFetches
  BY <1>2, <1>3
<1> HIDE DEF F
<1>7. WkSound([wk EXCEPT !.fetches = F])
  BY <1>1, <1>5, <1>6, FetchedSound
<1>8. QED
  BY <1>4, <1>7 DEF WkInv


(* The first choice is the first workspace; nothing was asked for any      *)
(* other.                                                                  *)
LEMMA ChosenUse ==
    ASSUME NEW u \in WkUsers, NEW s \in WkShells, UsedBy(u, s), s.stored = Null
    PROVE  UsedBy(u, [s EXCEPT !.stored = Head(WkOf[u])])
<1> DEFINE t == [s EXCEPT !.stored = Head(WkOf[u])]
<1>1. /\ t.token = s.token /\ t.stored = Head(WkOf[u]) /\ t.active = s.active /\ t.home = s.home
      /\ t.cache = s.cache /\ t.fetches = s.fetches
  BY DEF WkShells
<1>2. Head(WkOf[u]) \in Range(WkOf[u]) /\ Null \notin Range(WkOf[u])
  BY OfAUser, NoSpaceIsNull
<1> HIDE DEF t
<1>3. UsedBy(u, t)
  <2>1. /\ t.token \in {u, Null} /\ t.stored \in Range(WkOf[u]) \cup {Null}
        /\ t.active \in {t.stored, Null} /\ t.home \in {t.stored, Null, Closed}
        /\ t.active = Null => t.stored \in {Head(WkOf[u]), Null}
    BY <1>1, <1>2 DEF UsedBy
  <2>2. /\ Memberships \in DOMAIN t.cache => t.cache[Memberships] = WkOf[u] /\ t.stored # Null
        /\ Databases \in DOMAIN t.cache =>
             t.cache[Databases] = IF t.stored = Null THEN Head(WkOf[u]) ELSE t.stored
        /\ \A w \in Range(WkOf[u]) : Spaces(w) \in DOMAIN t.cache => t.cache[Spaces(w)] = w
    BY <1>1, <1>2 DEF UsedBy
  <2>3. \A f \in t.fetches :
          /\ f.user \in {u, Null}
          /\ ~f.dropped => /\ \A w \in Range(WkOf[u]) : f.key = Spaces(w) => t.stored = w
                           /\ f.header \in {t.stored, Null}
    BY <1>1, <1>2 DEF UsedBy
  <2> QED
    BY <2>1, <2>2, <2>3 DEF UsedBy
<1>4. QED
  BY <1>3 DEF t

(* An answer that tells the truth is kept.                                 *)
LEMMA StoredUse ==
    ASSUME NEW u \in WkUsers, NEW s \in WkShells, UsedBy(u, s),
           NEW key \in WkKeys, NEW data \in Range(WkOf) \cup WkSpaces,
           key = Memberships => data = WkOf[u] /\ s.stored # Null,
           key = Databases => data = IF s.stored = Null THEN Head(WkOf[u]) ELSE s.stored,
           \A w \in Range(WkOf[u]) : key = Spaces(w) => data = w
    PROVE  UsedBy(u, Stored(s, key, data))
<1> DEFINE t == Stored(s, key, data)
<1> DEFINE c == t.cache
<1>1. key = Memberships => data \in Range(WkOf)
  BY OfAUser
<1>2. /\ t = [s EXCEPT !.cache = c]
      /\ DOMAIN c = DOMAIN s.cache \cup {key} /\ c[key] = data
      /\ \A k \in DOMAIN s.cache \ {key} : c[k] = s.cache[k]
  BY <1>1, CacheIsKept
<1>3. /\ t.token = s.token /\ t.stored = s.stored /\ t.active = s.active /\ t.home = s.home
      /\ t.fetches = s.fetches
  BY DEF WkShells, Stored
<1> HIDE DEF t
<1>4. Memberships \in DOMAIN c => c[Memberships] = WkOf[u] /\ s.stored # Null
  BY <1>2 DEF UsedBy
<1>5. Databases \in DOMAIN c => c[Databases] = IF s.stored = Null THEN Head(WkOf[u]) ELSE s.stored
  BY <1>2 DEF UsedBy
<1>6. \A w \in Range(WkOf[u]) : Spaces(w) \in DOMAIN c => c[Spaces(w)] = w
  BY <1>2 DEF UsedBy
<1>7. UsedBy(u, t)
  BY <1>3, <1>4, <1>5, <1>6 DEF UsedBy
<1>8. QED
  BY <1>7 DEF t

(* What an answer holds.                                                   *)
LEMMA AnswerOfUse ==
    ASSUME NEW u \in WkUsers, NEW f \in wk.fetches, WkInv, wk.users = {u},
           ~Denied(f), ~f.dropped, f.key # Memberships
    PROVE  /\ f.key = Databases =>
                Workspace(f) = IF wk.stored = Null THEN Head(WkOf[u]) ELSE wk.stored
           /\ \A w \in Range(WkOf[u]) : f.key = Spaces(w) => Workspace(f) = w
<1>1. /\ f.user = u /\ f.header \in {wk.stored, Null} /\ Workspace(f) \in Range(WkOf[u])
      /\ \A w \in Range(WkOf[u]) : f.key = Spaces(w) => wk.stored = w
  BY SoundFetches DEF WkInv, Denied
<1>2. wk.stored \in Range(WkOf[u]) \cup {Null}
  BY DEF WkInv, WkSound, UsedBy
<1>3. Null \notin Range(WkOf[u])
  BY WkAssumption
<1>4. CASE f.header # Null
  <2>1. Workspace(f) = wk.stored /\ wk.stored # Null
    BY <1>1, <1>4 DEF Workspace
  <2> QED
    BY <1>1, <2>1
<1>5. CASE f.header = Null
  <2>1. Len(WkOf[u]) = 1 /\ Workspace(f) = Head(WkOf[u])
    BY <1>1, <1>3, <1>5 DEF Workspace
  <2>2. WkOf[u] \in Seq(Range(WkOf[u]))
    BY WkAssumption
  <2>3. DOMAIN WkOf[u] = {1} /\ Head(WkOf[u]) = WkOf[u][1]
    BY <2>1, <2>2
  <2>4. \A w \in Range(WkOf[u]) : w = Head(WkOf[u])
    BY <2>3 DEF Range
  <2> QED
    BY <1>1, <1>2, <2>1, <2>4
<1>6. QED
  BY <1>4, <1>5

LEMMA ArrivesInv ==
    ASSUME NEW f \in wk.fetches, WkInv, Arrives(f)
    PROVE  WkInv'
<1> DEFINE data == IF f.key = Memberships THEN WkOf[f.user] ELSE Workspace(f)
<1> DEFINE rest == [wk EXCEPT !.fetches = wk.fetches \ {f}]
<1> DEFINE st == IF f.key = Memberships /\ wk.stored = Null THEN Head(data) ELSE wk.stored
<1> DEFINE chosen == [rest EXCEPT !.stored = st]
<1>1. WkSound(wk) /\ wk \in WkShells /\ wk.users # {} /\ f \in WkFetches /\ ~Denied(f)
  BY SoundFetches DEF WkInv, WkSound, Arrives
<1>2. wk' = IF f.dropped THEN chosen ELSE RenderedShell(Stored(chosen, f.key, data))
  <2>1. wk' = LET d == IF f.key = Memberships THEN WkOf[f.user] ELSE Workspace(f)
                  c == [wk EXCEPT !.fetches = @ \ {f},
                                  !.stored = IF f.key = Memberships /\ @ = Null THEN Head(d) ELSE @]
              IN IF f.dropped THEN c ELSE RenderedShell(Stored(c, f.key, d))
    BY DEF Arrives
  <2>2. [wk EXCEPT !.fetches = @ \ {f},
                   !.stored = IF f.key = Memberships /\ @ = Null THEN Head(data) ELSE @] = chosen
    BY <1>1 DEF WkShells
  <2> QED
    BY <2>1, <2>2
<1>3. f.user \in WkUsers /\ f.key \in WkKeys /\ f.dropped \in BOOLEAN
  BY <1>1 DEF Denied, WkFetches
<1>4. data \in Range(WkOf) \cup WkSpaces /\ (f.key = Memberships => data \in Range(WkOf))
  <2>1. f.key # Memberships => Workspace(f) \in Range(WkOf[f.user])
    BY <1>1 DEF Denied
  <2> QED
    BY <1>3, <2>1, OfAUser
<1>5. st \in WkSpaces \cup {Null}
  <2>1. wk.stored \in WkSpaces \cup {Null}
    BY <1>1 DEF WkShells
  <2>2. f.key = Memberships => Head(data) \in WkSpaces
    BY <1>4, NoSpaceIsNull
  <2> QED
    BY <2>1, <2>2
<1>6. WkSound(rest) /\ rest.users = wk.users
  <2> DEFINE F == wk.fetches \ {f}
  <2>1. F \in SUBSET WkFetches
    BY <1>1 DEF WkShells
  <2>2. \A u \in WkUsers : \A e \in F :
             wk.users = {u} =>
               /\ e.user \in {u, Null}
               /\ ~e.dropped => /\ \A w \in Range(WkOf[u]) : e.key = Spaces(w) => wk.stored = w
                                /\ e.header \in {wk.stored, Null}
    BY <1>1, SoundFetches
  <2> HIDE DEF F
  <2>3. WkSound([wk EXCEPT !.fetches = F]) /\ [wk EXCEPT !.fetches = F].users = wk.users
    BY <1>1, <2>1, <2>2, FetchedSound
  <2> QED
    BY <2>3 DEF F
<1>7. rest \in WkShells /\ rest.stored = wk.stored
  BY <1>1, <1>6 DEF WkSound, WkShells
<1> HIDE DEF data
<1>8. chosen \in WkShells /\ chosen.users = wk.users /\ chosen.stored = st
  <2> HIDE DEF rest, st
  <2> QED
    BY <1>5, <1>6, <1>7 DEF WkShells
<1>9. ASSUME NEW u \in WkUsers, wk.users = {u}
      PROVE  f.user = u /\ UsedBy(u, chosen)
  <2>1. f.user = u
    BY <1>1, <1>3, <1>9, SoundFetches, WkAssumption
  <2>2. UsedBy(u, rest)
    BY <1>6, <1>9 DEF WkSound
  <2>3. CASE f.key = Memberships /\ wk.stored = Null
    <3>1. st = Head(WkOf[u]) /\ rest.stored = Null
      BY <1>7, <2>1, <2>3 DEF data
    <3> HIDE DEF rest, st
    <3>2. UsedBy(u, [rest EXCEPT !.stored = Head(WkOf[u])])
      BY <1>7, <2>2, <3>1, ChosenUse
    <3> QED
      BY <2>1, <3>1, <3>2
  <2>4. CASE ~(f.key = Memberships /\ wk.stored = Null)
    <3>1. st = rest.stored
      BY <1>7, <2>4
    <3> HIDE DEF rest, st
    <3>2. [rest EXCEPT !.stored = st] = rest
      BY <1>7, <3>1 DEF WkShells
    <3> QED
      BY <2>1, <2>2, <3>2
  <2> QED
    BY <2>3, <2>4
<1>10. IsFiniteSet(wk.users)
  BY <1>1 DEF WkSound
<1> DEFINE kept == Stored(chosen, f.key, data)
<1> HIDE DEF chosen
<1>11. CASE f.dropped
  BY <1>1, <1>2, <1>8, <1>9, <1>10, <1>11 DEF WkInv, WkSound
<1>12. CASE ~f.dropped
  <2>1. kept \in WkShells /\ kept.users = wk.users
    <3>1. kept \in WkShells /\ kept = [chosen EXCEPT !.cache = kept.cache]
      BY <1>3, <1>4, <1>8, CacheIsKept
    <3> HIDE DEF kept
    <3> QED
      BY <1>8, <3>1 DEF WkShells
  <2>2. ASSUME NEW u \in WkUsers, wk.users = {u}
        PROVE  UsedBy(u, kept)
    <3>1. f.key = Memberships => data = WkOf[u] /\ chosen.stored # Null
      <4>1. Head(WkOf[u]) # Null
        BY OfAUser, NoSpaceIsNull
      <4> QED
        BY <1>8, <1>9, <2>2, <4>1 DEF data
    <3>2. f.key = Databases => data = IF chosen.stored = Null THEN Head(WkOf[u]) ELSE chosen.stored
      BY <1>1, <1>8, <1>12, <2>2, KeysDiffer, AnswerOfUse DEF data, WkInv
    <3>3. \A w \in Range(WkOf[u]) : f.key = Spaces(w) => data = w
      BY <1>1, <1>12, <2>2, KeysDiffer, AnswerOfUse DEF data, WkInv
    <3>4. UsedBy(u, chosen)
      BY <1>9, <2>2
    <3> QED
      BY <1>3, <1>4, <1>8, <3>1, <3>2, <3>3, <3>4, StoredUse
  <2>3. WkSound(kept) /\ kept.users # {}
    BY <1>1, <1>10, <2>1, <2>2 DEF WkSound
  <2>4. WkSound(RenderedShell(kept))
    BY <2>3, RenderedSound
  <2> QED
    BY <1>2, <1>12, <2>4 DEF WkInv
<1>13. QED
  BY <1>3, <1>11, <1>12


LEMMA FailsInv ==
    ASSUME NEW f \in wk.fetches, WkInv, Fails(f)
    PROVE  WkInv'
<1> DEFINE F == wk.fetches \ {f}
<1> DEFINE rest == [wk EXCEPT !.fetches = F]
<1> DEFINE again == [Fetch(f.key) EXCEPT !.tried = TRUE]
<1>1. WkSound(wk) /\ wk \in WkShells /\ wk.users # {} /\ f \in WkFetches
  BY SoundFetches DEF WkInv, WkSound
<1>2. f.key \in WkKeys
  BY <1>1 DEF WkFetches
<1>3. F \in SUBSET WkFetches /\ \A u \in WkUsers : \A e \in F :
         wk.users = {u} =>
           /\ e.user \in {u, Null}
           /\ ~e.dropped => /\ \A w \in Range(WkOf[u]) : e.key = Spaces(w) => wk.stored = w
                            /\ e.header \in {wk.stored, Null}
  BY <1>1, SoundFetches DEF WkShells
<1> HIDE DEF F
<1>4. WkSound(rest) /\ rest.users = wk.users
  BY <1>1, <1>3, FetchedSound
<1>5. rest \in WkShells
  BY <1>4 DEF WkSound
<1>6. \/ wk' = rest
      \/ wk' = [rest EXCEPT !.token = Null, !.page = "login"]
      \/ ~f.dropped /\ wk' = [rest EXCEPT !.fetches = F \cup {again}]
      \/ wk' = [rest EXCEPT !.failed = rest.failed \cup {f.key}]
  <2>1. wk' = CASE f.dropped -> rest
                [] ~f.dropped /\ f.key = Memberships -> [rest EXCEPT !.token = Null, !.page = "login"]
                [] ~f.dropped /\ f.key # Memberships /\ ~f.tried ->
                     [rest EXCEPT !.fetches = rest.fetches \cup {again}]
                [] OTHER -> [rest EXCEPT !.failed = rest.failed \cup {f.key}]
    BY DEF Fails, F
  <2>2. rest.fetches = F
    BY <1>1 DEF WkShells
  <2>3. f.dropped \in BOOLEAN /\ f.tried \in BOOLEAN
    BY <1>1 DEF WkFetches
  <2> HIDE DEF rest, again
  <2> QED
    BY <2>1, <2>2, <2>3
<1>7. CASE wk' = rest
  BY <1>4, <1>7 DEF WkInv
<1>8. CASE wk' = [rest EXCEPT !.token = Null, !.page = "login"]
  <2> DEFINE t == [rest EXCEPT !.token = Null, !.page = "login"]
  <2> HIDE DEF rest
  <2>1. /\ t.token = Null /\ t.stored = rest.stored /\ t.active = rest.active /\ t.home = rest.home
        /\ t.cache = rest.cache /\ t.fetches = rest.fetches /\ t.users = rest.users
        /\ t \in WkShells
    BY <1>5 DEF WkShells
  <2> HIDE DEF t
  <2>2. \A u \in WkUsers : UsedBy(u, rest) => UsedBy(u, t)
    BY <2>1 DEF UsedBy
  <2>3. WkSound(t)
    BY <1>1, <1>4, <2>1, <2>2 DEF WkSound
  <2> QED
    BY <1>8, <2>3 DEF WkInv, t
<1>9. CASE ~f.dropped /\ wk' = [rest EXCEPT !.fetches = F \cup {again}]
  <2> DEFINE G == F \cup {again}
  <2>1. again \in WkFetches /\ again.user = Null /\ again.header = Null /\ again.key = f.key
    BY <1>2, FetchType DEF Fetch
  <2> HIDE DEF again
  <2>2. G \in SUBSET WkFetches
    BY <1>3, <2>1
  <2>3. ASSUME NEW u \in WkUsers, NEW e \in G, wk.users = {u}
        PROVE  /\ e.user \in {u, Null}
               /\ ~e.dropped => /\ \A w \in Range(WkOf[u]) : e.key = Spaces(w) => wk.stored = w
                                /\ e.header \in {wk.stored, Null}
    <3>1. CASE e \in F
      BY <1>3, <2>3, <3>1
    <3>2. CASE e = again
      <4>1. \A w \in Range(WkOf[u]) : f.key = Spaces(w) => wk.stored = w
        BY <1>1, <1>9, <2>3, SoundFetches
      <4> QED
        BY <2>1, <3>2, <4>1
    <3> QED
      BY <3>1, <3>2
  <2> HIDE DEF G
  <2>4. WkSound([wk EXCEPT !.fetches = G])
    BY <1>1, <2>2, <2>3, FetchedSound
  <2>5. wk' = [wk EXCEPT !.fetches = G]
    BY <1>1, <1>9 DEF WkShells, G
  <2> QED
    BY <2>4, <2>5 DEF WkInv
<1>10. CASE wk' = [rest EXCEPT !.failed = rest.failed \cup {f.key}]
  <2> DEFINE t == [rest EXCEPT !.failed = rest.failed \cup {f.key}]
  <2> HIDE DEF rest
  <2>1. /\ t.token = rest.token /\ t.stored = rest.stored /\ t.active = rest.active /\ t.home = rest.home
        /\ t.cache = rest.cache /\ t.fetches = rest.fetches /\ t.users = rest.users
        /\ t \in WkShells
    BY <1>2, <1>5 DEF WkShells
  <2> HIDE DEF t
  <2>2. \A u \in WkUsers : UsedBy(u, rest) => UsedBy(u, t)
    BY <2>1 DEF UsedBy
  <2>3. WkSound(t)
    BY <1>1, <1>4, <2>1, <2>2 DEF WkSound
  <2> QED
    BY <1>10, <2>3 DEF WkInv, t
<1>11. QED
  BY <1>6, <1>7, <1>8, <1>9, <1>10

(* The user's steps, with one step less to take.                           *)
LEMMA InShellInv ==
    ASSUME NEW s, WkSound(s), s.ops > 0, InShell(s)
    PROVE  WkInv'
BY CountedSound DEF InShell, WkInv

(* A first user finds nothing; the same one again, what was theirs.        *)
LEMMA LogInInv ==
    ASSUME NEW u \in WkUsers, WkInv, wk.ops > 0, LogIn(u)
    PROVE  WkInv'
<1> DEFINE t == [wk EXCEPT !.token = u, !.users = wk.users \cup {u}]
<1>1. WkSound(wk) /\ wk \in WkShells
  BY DEF WkInv, WkSound
<1>2. /\ t.token = u /\ t.stored = wk.stored /\ t.active = wk.active /\ t.home = wk.home
      /\ t.cache = wk.cache /\ t.fetches = wk.fetches /\ t.users = wk.users \cup {u}
      /\ t.ops = wk.ops /\ t \in WkShells
  BY <1>1 DEF WkShells
<1>3. InShell(Visit(t, "home"))
  BY DEF LogIn
<1> HIDE DEF t
<1>4. IsFiniteSet(t.users)
  BY <1>1, <1>2, FS_AddElement DEF WkSound
<1>5. ASSUME NEW v \in WkUsers, t.users = {v}
      PROVE  UsedBy(v, t)
  <2>1. v = u /\ (wk.users = {} \/ wk.users = {u})
    BY <1>2, <1>5
  <2>2. CASE wk.users = {u}
    <3>1. UsedBy(u, wk)
      BY <1>1, <2>2 DEF WkSound
    <3> QED
      BY <1>2, <2>1, <3>1 DEF UsedBy
  <2>3. CASE wk.users = {}
    <3>1. LoggedOut(wk)
      BY <1>1, <2>3 DEF WkSound
    <3>2. t.stored = Null /\ t.active = Null /\ t.home = Null /\ DOMAIN t.cache = {} /\ t.fetches = {}
      BY <1>2, <3>1 DEF LoggedOut
    <3> QED
      BY <1>2, <2>1, <3>2 DEF UsedBy
  <2> QED
    BY <2>1, <2>2, <2>3
<1>6. WkSound(t) /\ t.users # {}
  BY <1>2, <1>4, <1>5 DEF WkSound
<1>7. WkSound(Visit(t, "home")) /\ Visit(t, "home").ops > 0
  BY <1>2, <1>6, VisitSound
<1>8. QED
  BY <1>3, <1>7, InShellInv

LEMMA LogOutInv ==
    ASSUME WkInv, wk.ops > 0, LogOut
    PROVE  WkInv'
<1> DEFINE t == [wk EXCEPT !.token = Null, !.page = "login"]
<1>1. WkSound(wk) /\ wk \in WkShells /\ wk.page # "login"
  BY DEF WkInv, WkSound, LogOut
<1>2. /\ t.token = Null /\ t.stored = wk.stored /\ t.active = wk.active /\ t.home = wk.home
      /\ t.cache = wk.cache /\ t.fetches = wk.fetches /\ t.users = wk.users /\ t.ops = wk.ops
      /\ t \in WkShells
  BY <1>1 DEF WkShells
<1>3. InShell(t)
  BY DEF LogOut
<1> HIDE DEF t
<1>4. \A u \in WkUsers : UsedBy(u, wk) => UsedBy(u, t)
  BY <1>2 DEF UsedBy
<1>5. wk.users # {}
  BY <1>1 DEF WkSound, LoggedOut
<1>6. WkSound(t)
  BY <1>1, <1>2, <1>4, <1>5 DEF WkSound
<1>7. QED
  BY <1>2, <1>3, <1>6, InShellInv

LEMMA NavigateInv ==
    ASSUME NEW page \in {"home", "site"}, WkInv, wk.ops > 0, Navigate(page)
    PROVE  WkInv'
<1>1. WkSound(wk) /\ wk.page # "login" /\ InShell(Visit(wk, page))
  BY DEF WkInv, Navigate
<1>2. wk.users # {}
  BY <1>1 DEF WkSound, LoggedOut
<1>3. QED
  BY <1>1, <1>2, VisitSound, InShellInv

LEMMA RefetchInv ==
    ASSUME NEW key \in DOMAIN wk.cache, WkInv, wk.ops > 0, Refetch(key)
    PROVE  WkInv'
<1> DEFINE t == [wk EXCEPT !.fetches = wk.fetches \cup {Fetch(k) : k \in {key}}]
<1>1. WkSound(wk) /\ wk \in WkShells /\ key \in Queries(wk)
  BY DEF WkInv, WkSound, Refetch
<1>2. InShell(t)
  <2>1. {Fetch(k) : k \in {key}} = {Fetch(key)}
    OBVIOUS
  <2>2. InShell([wk EXCEPT !.fetches = wk.fetches \cup {Fetch(key)}])
    BY DEF Refetch
  <2> QED
    BY <2>1, <2>2
<1>3. wk.users # {}
  BY <1>1 DEF WkSound, LoggedOut, Queries
<1>4. \A u \in WkUsers : UsedBy(u, wk) => UsedBy(u, t)
  <2>1. {key} \in SUBSET Queries(wk)
    BY <1>1
  <2> QED
    BY <1>1, <2>1, QueriedUse
<1>5. wk.fetches \cup {Fetch(k) : k \in {key}} \in SUBSET WkFetches
  <2>1. key \in WkKeys /\ wk.fetches \in SUBSET WkFetches
    BY <1>1, SelectedType DEF WkShells
  <2> QED
    BY <2>1, FetchType
<1>6. t \in WkShells /\ t.users = wk.users /\ t.ops = wk.ops
  BY <1>1, <1>5 DEF WkShells
<1> HIDE DEF t
<1>7. WkSound(t)
  BY <1>1, <1>3, <1>4, <1>6 DEF WkSound
<1>8. QED
  BY <1>2, <1>6, <1>7, InShellInv

(* Everything kept is forgotten, and no answer under way is kept, when the *)
(* choice changes.                                                         *)
LEMMA ClearedSound ==
    ASSUME WkInv, wk.page # "login", Memberships \in DOMAIN wk.cache,
           NEW w \in Range(wk.cache[Memberships]), NEW h \in {w, Closed},
           NEW page \in {"home", "site"}, NEW a \in {w}
    PROVE  LET t == [Cleared([wk EXCEPT !.stored = w, !.active = w]) EXCEPT
                       !.page = page, !.active = a, !.home = h, !.failed = {}]
           IN WkSound(t) /\ t.users # {} /\ t.ops = wk.ops
<1> DEFINE F == {[f EXCEPT !.dropped = TRUE] : f \in wk.fetches}
<1> DEFINE chosen == [wk EXCEPT !.stored = w, !.active = w]
<1> DEFINE t == [Cleared(chosen) EXCEPT !.page = page, !.active = a, !.home = h, !.failed = {}]
<1>1. WkSound(wk) /\ wk \in WkShells /\ wk.users # {} /\ IsFiniteSet(wk.users)
  BY DEF WkInv, WkSound, LoggedOut
<1>2. wk.cache[Memberships] \in Range(WkOf)
  BY <1>1 DEF WkShells, WkCaches
<1>3. w \in WkSpaces
  <2>1. PICK u \in WkUsers : wk.cache[Memberships] = WkOf[u]
    BY <1>2, WkAssumption DEF Range
  <2> QED
    BY <2>1, OfAUser
<1>4. F \in SUBSET WkFetches
  <2>1. wk.fetches \subseteq WkFetches
    BY <1>1 DEF WkShells
  <2>2. \A f \in WkFetches : [f EXCEPT !.dropped = TRUE] \in WkFetches
    BY DEF WkFetches
  <2> QED
    BY <2>1, <2>2
<1>5. <<>> \in WkCaches /\ DOMAIN <<>> = {}
  <2>1. <<>> \in [{} -> Range(WkOf) \cup WkSpaces] /\ DOMAIN <<>> = {}
    OBVIOUS
  <2> QED
    BY <2>1 DEF WkCaches
<1>6. t = [wk EXCEPT !.stored = w, !.active = a, !.home = h, !.page = page,
                     !.cache = <<>>, !.failed = {}, !.fetches = F]
  <2>1. chosen.fetches = wk.fetches
    BY <1>1 DEF WkShells
  <2> QED
    BY <1>1, <2>1 DEF WkShells, Cleared
<1> HIDE DEF F, t
<1>7. /\ t.token = wk.token /\ t.stored = w /\ t.active = w /\ t.home = h
      /\ t.cache = <<>> /\ t.fetches = F /\ t.users = wk.users /\ t.ops = wk.ops
      /\ t \in WkShells
  BY <1>1, <1>3, <1>4, <1>5, <1>6 DEF WkShells
<1>8. ASSUME NEW u \in WkUsers, wk.users = {u}
      PROVE  UsedBy(u, t)
  <2>1. UsedBy(u, wk)
    BY <1>1, <1>8 DEF WkSound
  <2>2. w \in Range(WkOf[u]) /\ w # Null
    BY <2>1, WkAssumption DEF UsedBy
  <2>3. \A f \in F : f.dropped /\ f.user \in {u, Null}
    <3>1. ASSUME NEW f \in wk.fetches
          PROVE  [f EXCEPT !.dropped = TRUE].dropped /\ [f EXCEPT !.dropped = TRUE].user \in {u, Null}
      <4>1. f \in WkFetches /\ f.user \in {u, Null}
        BY <1>1, <2>1 DEF WkShells, UsedBy
      <4> QED
        BY <4>1 DEF WkFetches
    <3> QED
      BY <3>1 DEF F
  <2>4. wk.token \in {u, Null}
    BY <2>1 DEF UsedBy
  <2> QED
    BY <1>5, <1>7, <2>2, <2>3, <2>4 DEF UsedBy
<1>9. WkSound(t)
  BY <1>1, <1>7, <1>8 DEF WkSound
<1>10. QED
  BY <1>1, <1>7, <1>9 DEF t

LEMMA ChangeWorkspaceInv ==
    ASSUME NEW w, WkInv, wk.ops > 0, ChangeWorkspace(w)
    PROVE  WkInv'
<1> DEFINE c == Cleared([wk EXCEPT !.stored = w, !.active = w])
<1>1. /\ wk.page # "login" /\ Memberships \in DOMAIN wk.cache /\ w \in Range(wk.cache[Memberships])
      /\ \/ InShell(Visit(c, "home"))
         \/ wk.page = "home" /\ InShell(RenderedShell([c EXCEPT !.home = Closed]))
  BY DEF ChangeWorkspace
<1>2. wk \in WkShells
  BY DEF WkInv, WkSound
<1>3. c.stored = w /\ c.active = w /\ c.failed = {} /\ c.page = wk.page
  BY <1>2 DEF WkShells, Cleared
<1>4. CASE InShell(Visit(c, "home"))
  <2> DEFINE t == [c EXCEPT !.page = "home", !.active = w, !.home = w, !.failed = {}]
  <2>1. WkSound(t) /\ t.users # {} /\ t.ops = wk.ops
    BY <1>1, ClearedSound
  <2>2. Visit(c, "home") = RenderedShell(t)
    BY <1>3 DEF Visit
  <2> HIDE DEF t, c
  <2>3. WkSound(Visit(c, "home")) /\ Visit(c, "home").ops > 0
    BY <2>1, <2>2, RenderedSound
  <2> QED
    BY <1>4, <2>3, InShellInv
<1>5. CASE wk.page = "home" /\ InShell(RenderedShell([c EXCEPT !.home = Closed]))
  <2> DEFINE t == [c EXCEPT !.page = "home", !.active = w, !.home = Closed, !.failed = {}]
  <2>1. WkSound(t) /\ t.users # {} /\ t.ops = wk.ops
    BY <1>1, ClearedSound
  <2>2. [c EXCEPT !.home = Closed] = t
    BY <1>2, <1>5 DEF WkShells, Cleared
  <2> HIDE DEF t, c
  <2>3. WkSound(RenderedShell(t)) /\ RenderedShell(t).ops > 0
    BY <2>1, RenderedSound
  <2> QED
    BY <1>5, <2>2, <2>3, InShellInv
<1>6. QED
  BY <1>1, <1>4, <1>5

LEMMA WkInitInv == WkInit => WkInv
<1>1. SUFFICES ASSUME WkInit PROVE WkSound(wk)
  BY DEF WkInv
<1>2. <<>> \in WkCaches
  <2>1. <<>> \in [{} -> Range(WkOf) \cup WkSpaces] /\ DOMAIN <<>> = {}
    OBVIOUS
  <2> QED
    BY <2>1 DEF WkCaches
<1>3. /\ wk.token = Null /\ wk.stored = Null /\ wk.active = Null /\ wk.home = Null
      /\ wk.page = "login" /\ wk.cache = <<>> /\ wk.fetches = {} /\ wk.users = {}
      /\ wk \in WkShells
  <2> DEFINE none == <<>>
  <2>1. WkOps \in Nat /\ none \in WkCaches
    BY <1>2, WkAssumption
  <2>2. wk = [token |-> Null, stored |-> Null, page |-> "login", active |-> Null, home |-> Null,
              cache |-> none, fetches |-> {}, failed |-> {}, users |-> {}, ops |-> WkOps]
    BY <1>1 DEF WkInit
  <2> HIDE DEF none
  <2>3. /\ wk.token = Null /\ wk.stored = Null /\ wk.active = Null /\ wk.home = Null
        /\ wk.page = "login" /\ wk.cache = none /\ wk.fetches = {} /\ wk.users = {}
        /\ wk \in WkShells
    BY <2>1, <2>2 DEF WkShells
  <2> QED
    BY <2>3 DEF none
<1>4. IsFiniteSet({})
  BY FS_EmptySet
<1>5. QED
  BY <1>3, <1>4 DEF WkSound, LoggedOut

LEMMA WkNextInv ==
    ASSUME WkInv, [WkNext]_wk
    PROVE  WkInv'
<1>1. CASE UNCHANGED wk
  BY <1>1 DEF WkInv
<1>2. CASE wk.ops > 0 /\ \E u \in WkUsers : LogIn(u)
  BY <1>2, LogInInv
<1>3. CASE wk.ops > 0 /\ LogOut
  BY <1>3, LogOutInv
<1>4. CASE wk.ops > 0 /\ \E u \in WkUsers : \E w \in Range(WkOf[u]) : ChangeWorkspace(w)
  BY <1>4, ChangeWorkspaceInv
<1>5. CASE wk.ops > 0 /\ \E page \in {"home", "site"} : Navigate(page)
  BY <1>5, NavigateInv
<1>6. CASE wk.ops > 0 /\ \E key \in DOMAIN wk.cache : Refetch(key)
  BY <1>6, RefetchInv
<1>7. CASE \E f \in wk.fetches : Send(f) \/ Arrives(f) \/ Fails(f)
  BY <1>7, SendInv, ArrivesInv, FailsInv
<1>8. QED
  BY <1>1, <1>2, <1>3, <1>4, <1>5, <1>6, <1>7 DEF WkNext, WorkspaceUser

LEMMA WkInvSuffices == WkInv => CacheOfItsWorkspace
<1>1. SUFFICES ASSUME WkInv, wk # Closed, Cardinality(wk.users) = 1,
                      NEW key \in DOMAIN wk.cache
               PROVE  /\ (key = Databases /\ wk.stored # Null) => wk.cache[key] = wk.stored
                      /\ \A u \in wk.users : \A w \in Range(WkOf[u]) :
                           key = Spaces(w) => wk.cache[key] = w
  BY DEF CacheOfItsWorkspace
<1>2. IsFiniteSet(wk.users) /\ wk.users \in SUBSET WkUsers
  BY <1>1 DEF WkInv, WkSound, WkShells
<1>3. PICK u : wk.users = {u}
  BY <1>1, <1>2, FS_Singleton
<1>4. u \in WkUsers /\ UsedBy(u, wk)
  BY <1>1, <1>2, <1>3 DEF WkInv, WkSound
<1>5. QED
  BY <1>3, <1>4 DEF UsedBy

(* The invariant, for any users and any workspaces of theirs: as long as   *)
(* one user uses the browser, what is kept, shown and asked for belongs to *)
(* the workspace stored (changeWorkspace, apiFetch, get_current_workspace).*)
THEOREM ShellInvariant == WkSpec => []WkInv
<1>1. WkInit => WkInv
  BY WkInitInv
<1>2. WkInv /\ [WkNext]_wk => WkInv'
  BY WkNextInv
<1>3. QED
  BY <1>1, <1>2, PTL DEF WkSpec

-----------------------------------------------------------------------------
(* The number on the bell.                                                 *)

NbRequests == [nth : Nat, do : {"count", "list", "read", "all", "read_elsewhere", "all_elsewhere"},
               id : Nat \cup {Null}, step : {"sent", "missed", "counted", "committed", "answered"},
               got : Nat \cup {Null}, seen : Seq(BOOLEAN) \cup {Null}, dropped : BOOLEAN]
NbStates == [read : Seq(BOOLEAN), cache : [n : Nat, left : 0 .. NbTtl] \cup {Null}, inApp : BOOLEAN,
             badge : Nat \cup {Null}, list : Seq(BOOLEAN) \cup {Null}, open : BOOLEAN,
             net : SUBSET NbRequests, calm : 0 .. NbTtl + 1, ops : Int]

(* What the badge should show.                                             *)
Due(s) == IF s.inApp THEN Unread(s) ELSE 0

(* A reading is committed, and its request still under way, only in the    *)
(* interval of that change; a count that began before is wrong only then.  *)
RequestHolds(s, m) ==
    /\ m.step = "committed" => s.calm = 0 /\ m.do \notin {"count", "list"}
    /\ m.do = "count" /\ m.step \in {"missed", "counted"} => s.inApp
    /\ m.do = "count" /\ m.step = "counted" => m.got \in Nat /\ (s.calm = 0 \/ m.got = Unread(s))
    /\ m.do = "count" /\ m.step = "answered" =>
         m.got \in Nat /\ (s.calm = NbTtl + 1 \/ ~s.inApp => m.got = Due(s))

(* A wrong number in the cache is older than the last change.              *)
NbSound(s) ==
    /\ s \in NbStates /\ \E n \in Nat : \A m \in s.net : m.nth <= n
    /\ \A m \in s.net : RequestHolds(s, m)
    /\ s.cache # Null /\ s.cache.n # Unread(s) => s.cache.left + s.calm <= NbTtl

Counting(s) == \E m \in s.net : m.do = "count" /\ ~m.dropped
Awaited(s) == s.calm = NbTtl + 1 => s.badge = Due(s) \/ Counting(s)

NbInv == NbSound(nb) /\ Awaited(nb)


LEMMA UnreadIsNumber ==
    ASSUME NEW s \in NbStates
    PROVE  Unread(s) \in Nat /\ Due(s) \in Nat
<1>1. s.read \in Seq(BOOLEAN)
  BY DEF NbStates
<1>2. DOMAIN s.read = 1 .. Len(s.read) /\ Len(s.read) \in Nat
  BY <1>1
<1>3. IsFiniteSet(1 .. Len(s.read))
  BY <1>2, FS_Interval
<1>4. IsFiniteSet({id \in DOMAIN s.read : ~s.read[id]})
  BY <1>2, <1>3, FS_Subset
<1>5. Unread(s) \in Nat
  BY <1>4, FS_CardinalityType DEF Unread
<1>6. QED
  BY <1>5 DEF Due

(* Nothing but requests has changed.                                       *)
NetOnly(s, t) ==
    /\ t.read = s.read /\ t.cache = s.cache /\ t.inApp = s.inApp /\ t.badge = s.badge
    /\ t.list = s.list /\ t.open = s.open /\ t.calm = s.calm /\ t.ops = s.ops

LEMMA SameDue ==
    ASSUME NEW s, NEW t, t.read = s.read, t.inApp = s.inApp, t.calm = s.calm
    PROVE  /\ Unread(t) = Unread(s) /\ Due(t) = Due(s)
           /\ \A m : RequestHolds(s, m) <=> RequestHolds(t, m)
<1>1. Unread(t) = Unread(s)
  BY DEF Unread
<1>2. Due(t) = Due(s)
  BY <1>1 DEF Due
<1>3. QED
  BY <1>1, <1>2 DEF RequestHolds

(* As long as nothing is read or arrives, a state is as sound as the       *)
(* requests that it adds and what it keeps in the cache.                   *)
LEMMA NothingRead ==
    ASSUME NEW s, NEW t, NbSound(s), t \in NbStates,
           t.read = s.read, t.inApp = s.inApp, t.calm = s.calm,
           \E n \in Nat : \A m \in t.net : m.nth <= n,
           \A m \in t.net : m \in s.net \/ RequestHolds(s, m),
           t.cache = s.cache \/ (t.cache # Null /\ t.cache.n # Unread(s) => t.cache.left + s.calm <= NbTtl)
    PROVE  NbSound(t)
<1>1. \A m \in t.net : RequestHolds(t, m)
  BY SameDue DEF NbSound
<1>2. t.cache # Null /\ t.cache.n # Unread(t) => t.cache.left + t.calm <= NbTtl
  BY SameDue DEF NbSound
<1>3. QED
  BY <1>1, <1>2 DEF NbSound

(* A request is added, and all others are under way as they were.          *)
LEMMA AskSound ==
    ASSUME NEW s, NbSound(s), NEW id \in Nat \cup {Null},
           NEW do \in {"count", "list", "read", "all", "read_elsewhere", "all_elsewhere"}
    PROVE  /\ NbSound(Ask(s, do, id)) /\ NetOnly(s, Ask(s, do, id))
           /\ do = "count" \/ Counting(s) => Counting(Ask(s, do, id))
<1> DEFINE N == {0} \cup {m.nth : m \in s.net}
<1> DEFINE new == [nth |-> Max(N) + 1, do |-> do, id |-> id,
                   step |-> "sent", got |-> Null, seen |-> Null, dropped |-> FALSE]
<1> DEFINE net == s.net \cup {new}
<1> DEFINE t == [s EXCEPT !.net = net]
<1>1. s \in NbStates /\ s.net \subseteq NbRequests
  BY DEF NbSound, NbStates
<1>2. PICK n \in Nat : \A m \in s.net : m.nth <= n
  BY DEF NbSound
<1>3. PICK top \in Nat : top = Max(N)
  <2>1. \A m \in s.net : m.nth \in Nat
    BY <1>1 DEF NbRequests
  <2>2. ASSUME NEW i \in N PROVE i \in Nat /\ i <= n
    <3>1. CASE i = 0
      BY <1>2, <3>1
    <3>2. CASE i # 0
      BY <1>2, <2>1, <3>2
    <3> QED
      BY <3>1, <3>2
  <2>3. 0 \in N
    OBVIOUS
  <2> HIDE DEF N
  <2>4. N \in SUBSET Nat /\ N # {}
    BY <2>2, <2>3
  <2>5. Max(N) \in N
    BY <2>2, <2>4, MaxIsGreatest
  <2> QED
    BY <2>4, <2>5
<1> HIDE DEF N
<1>4. new \in NbRequests /\ new.step = "sent" /\ new.do = do /\ ~new.dropped /\ new.nth = top + 1
  <2>1. top + 1 \in Nat
    BY <1>3
  <2> QED
    BY <1>3, <2>1 DEF NbRequests
<1>5. Ask(s, do, id) = t
  BY DEF Ask, N
<1> HIDE DEF new
<1>6. t \in NbStates /\ NetOnly(s, t) /\ t.net = net
  <2>1. net \in SUBSET NbRequests
    BY <1>1, <1>4
  <2> HIDE DEF net
  <2> QED
    BY <1>1, <2>1 DEF NbStates, NetOnly
<1> HIDE DEF t
<1>7. \E k \in Nat : \A m \in net : m.nth <= k
  <2>1. \A m \in net : m.nth <= n + top + 1
    <3>1. \A m \in s.net : m.nth \in Nat /\ m.nth <= n
      BY <1>1, <1>2 DEF NbRequests
    <3> QED
      BY <1>2, <1>3, <1>4, <3>1
  <2>2. n + top + 1 \in Nat
    BY <1>2, <1>3
  <2> QED
    BY <2>1, <2>2
<1>8. RequestHolds(s, new)
  BY <1>4 DEF RequestHolds
<1>9. NbSound(t)
  BY <1>6, <1>7, <1>8, NothingRead DEF NetOnly
<1>10. do = "count" \/ Counting(s) => Counting(t)
  BY <1>4, <1>6 DEF Counting
<1>11. QED
  BY <1>5, <1>6, <1>9, <1>10


LEMMA NetOnlyAgain ==
    ASSUME NEW s, NEW t, NEW w, NetOnly(s, t), NetOnly(t, w)
    PROVE  NetOnly(s, w)
BY DEF NetOnly

LEMMA FetchOnceSound ==
    ASSUME NEW s, NbSound(s), NEW do \in {"count", "list"}
    PROVE  /\ NbSound(FetchOnce(s, do)) /\ NetOnly(s, FetchOnce(s, do))
           /\ do = "count" \/ Counting(s) => Counting(FetchOnce(s, do))
<1>1. CASE UnderWay(s, do)
  <2>1. FetchOnce(s, do) = s
    BY <1>1 DEF FetchOnce
  <2>2. do = "count" => Counting(s)
    BY <1>1 DEF UnderWay, Counting
  <2>3. NetOnly(s, s)
    BY DEF NetOnly
  <2> QED
    BY <2>1, <2>2, <2>3
<1>2. CASE ~UnderWay(s, do)
  <2>1. FetchOnce(s, do) = Ask(s, do, Null)
    BY <1>2 DEF FetchOnce
  <2> QED
    BY <2>1, AskSound
<1>3. QED
  BY <1>1, <1>2

LEMMA FetchAnewSound ==
    ASSUME NEW s, NbSound(s), NEW do \in {"count", "list"}, NEW data
    PROVE  /\ NbSound(FetchAnew(s, do, data)) /\ NetOnly(s, FetchAnew(s, do, data))
           /\ do = "count" \/ Counting(s) => Counting(FetchAnew(s, do, data))
<1> DEFINE net == {IF m.do = do THEN [m EXCEPT !.dropped = TRUE] ELSE m : m \in s.net}
<1> DEFINE t == [s EXCEPT !.net = net]
<1>1. CASE data = Null
  BY <1>1, FetchOnceSound DEF FetchAnew
<1>2. CASE data # Null
  <2>1. FetchAnew(s, do, data) = Ask(t, do, Null)
    BY <1>2 DEF FetchAnew
  <2>2. s \in NbStates /\ s.net \subseteq NbRequests
    BY DEF NbSound, NbStates
  <2>3. ASSUME NEW m \in net
        PROVE  \E o \in s.net : /\ o \in NbRequests /\ m \in NbRequests /\ m.nth = o.nth
                                /\ m.do = o.do /\ m.step = o.step /\ m.got = o.got
    <3>1. PICK o \in s.net : m = IF o.do = do THEN [o EXCEPT !.dropped = TRUE] ELSE o
      OBVIOUS
    <3>2. o \in NbRequests
      BY <2>2
    <3> QED
      BY <3>1, <3>2 DEF NbRequests
  <2>4. do = "list" /\ Counting(s) => \E m \in net : m.do = "count" /\ ~m.dropped
    <3>1. SUFFICES ASSUME do = "list", NEW o \in s.net, o.do = "count", ~o.dropped PROVE o \in net
      BY DEF Counting
    <3> QED
      BY <3>1
  <2> HIDE DEF net
  <2>5. net \in SUBSET NbRequests
    BY <2>3
  <2>6. t \in NbStates /\ NetOnly(s, t) /\ t.net = net
    BY <2>2, <2>5 DEF NbStates, NetOnly
  <2>7. \A m \in net : RequestHolds(s, m)
    BY <2>3 DEF NbSound, RequestHolds
  <2>8. \E n \in Nat : \A m \in net : m.nth <= n
    BY <2>3 DEF NbSound
  <2>9. NbSound(t)
    BY <2>6, <2>7, <2>8, NothingRead DEF NetOnly
  <2>10. NbSound(Ask(t, do, Null)) /\ NetOnly(t, Ask(t, do, Null))
         /\ (do = "count" \/ Counting(t) => Counting(Ask(t, do, Null)))
    BY <2>9, AskSound
  <2>11. do = "count" \/ (Counting(s) => Counting(t))
    BY <2>4, <2>6 DEF Counting
  <2> QED
    BY <2>1, <2>6, <2>10, <2>11, NetOnlyAgain
<1>3. QED
  BY <1>1, <1>2

(* After the user's own readings a count is under way that began after     *)
(* them.                                                                   *)
LEMMA RefreshSound ==
    ASSUME NEW s, NbSound(s)
    PROVE  NbSound(Refresh(s)) /\ Counting(Refresh(s))
<1> DEFINE t == FetchAnew(s, "count", s.badge)
<1>1. NbSound(t) /\ Counting(t)
  BY FetchAnewSound
<1>2. Refresh(s) = t \/ Refresh(s) = FetchAnew(t, "list", s.list)
  BY DEF Refresh
<1> HIDE DEF t
<1>3. NbSound(FetchAnew(t, "list", s.list)) /\ Counting(FetchAnew(t, "list", s.list))
  BY <1>1, FetchAnewSound
<1>4. QED
  BY <1>1, <1>2, <1>3

(* The user's steps, with one step less to take.                           *)
LEMMA BellActsInv ==
    ASSUME NEW s, NbSound(s), Awaited(s), BellActs(s)
    PROVE  NbInv'
<1> DEFINE t == [s EXCEPT !.ops = @ - 1]
<1>1. s \in NbStates
  BY DEF NbSound
<1>2. s.ops - 1 \in Int
  BY <1>1 DEF NbStates
<1>3. /\ t \in NbStates /\ t.read = s.read /\ t.inApp = s.inApp /\ t.calm = s.calm /\ t.net = s.net
      /\ t.cache = s.cache /\ t.badge = s.badge
  BY <1>1, <1>2 DEF NbStates
<1>4. nb' = t
  BY DEF BellActs
<1> HIDE DEF t
<1>5. NbSound(t)
  <2>1. \E n \in Nat : \A m \in s.net : m.nth <= n
    BY DEF NbSound
  <2> QED
    BY <1>3, <2>1, NothingRead
<1>6. Awaited(t)
  BY <1>3, SameDue DEF Awaited, Counting
<1>7. QED
  BY <1>4, <1>5, <1>6 DEF NbInv


(* A request goes on, and tells or forgets in the cache what it may.       *)
LEMMA RequestMoves ==
    ASSUME NbInv, NEW m \in nb.net, NEW to \in NbRequests,
           to.nth = m.nth, to.do = m.do, to.dropped = m.dropped, RequestHolds(nb, to),
           NEW cache \in [n : Nat, left : 0 .. NbTtl] \cup {Null},
           cache = nb.cache \/ (cache # Null /\ cache.n # Unread(nb) => cache.left + nb.calm <= NbTtl),
           nb' = [nb EXCEPT !.cache = cache, !.net = (nb.net \ {m}) \cup {to}]
    PROVE  NbInv'
<1> DEFINE net == (nb.net \ {m}) \cup {to}
<1>1. NbSound(nb) /\ nb \in NbStates /\ nb.net \subseteq NbRequests
  BY DEF NbInv, NbSound, NbStates
<1>2. net \in SUBSET NbRequests
  BY <1>1
<1>3. \E n \in Nat : \A o \in net : o.nth <= n
  BY <1>1 DEF NbSound
<1>4. \A o \in net : o \in nb.net \/ RequestHolds(nb, o)
  OBVIOUS
<1>5. Counting(nb) => \E o \in net : o.do = "count" /\ ~o.dropped
  BY DEF Counting
<1>6. nb' = [nb EXCEPT !.cache = cache, !.net = net]
  OBVIOUS
<1> HIDE DEF net
<1>7. PICK t : t = nb'
  OBVIOUS
<1>8. /\ t \in NbStates /\ t.read = nb.read /\ t.inApp = nb.inApp /\ t.calm = nb.calm
      /\ t.badge = nb.badge /\ t.cache = cache /\ t.net = net
  BY <1>1, <1>2, <1>6, <1>7 DEF NbStates
<1>9. NbSound(t)
  BY <1>1, <1>3, <1>4, <1>8, NothingRead
<1>10. Awaited(t)
  BY <1>5, <1>8, SameDue DEF Awaited, Counting, NbInv
<1>11. QED
  BY <1>7, <1>9, <1>10 DEF NbInv

(* What is read changes: whatever is counted or cached may be wrong now,   *)
(* and has NbTtl intervals left.                                           *)
LEMMA ReadingChanges ==
    ASSUME NbSound(nb), NEW read \in Seq(BOOLEAN), NEW net \in SUBSET NbRequests,
           \E n \in Nat : \A m \in net : m.nth <= n,
           \A m \in net : m \in nb.net \/ (m.step = "committed" /\ m.do \notin {"count", "list"})
    PROVE  LET t == [nb EXCEPT !.read = read, !.calm = 0, !.net = net]
           IN NbSound(t) /\ Awaited(t)
<1> DEFINE t == [nb EXCEPT !.read = read, !.calm = 0, !.net = net]
<1>1. nb \in NbStates /\ NbTtl \in Nat
  BY NbAssumption DEF NbSound
<1>2. 0 \in 0 .. NbTtl + 1 /\ 0 # NbTtl + 1
  BY <1>1
<1>3. /\ t \in NbStates /\ t.read = read /\ t.inApp = nb.inApp /\ t.calm = 0
      /\ t.cache = nb.cache /\ t.net = net
  BY <1>1, <1>2 DEF NbStates
<1> HIDE DEF t
<1>4. \A m \in net : RequestHolds(t, m)
  <2>1. ASSUME NEW m \in nb.net PROVE RequestHolds(t, m)
    <3>1. RequestHolds(nb, m)
      BY DEF NbSound
    <3>2. ~nb.inApp => Due(nb) = Due(t)
      BY <1>3 DEF Due
    <3> QED
      BY <1>2, <1>3, <3>1, <3>2 DEF RequestHolds
  <2>2. ASSUME NEW m \in net, m.step = "committed", m.do \notin {"count", "list"} PROVE RequestHolds(t, m)
    BY <1>3, <2>2 DEF RequestHolds
  <2> QED
    BY <2>1, <2>2
<1>5. nb.cache # Null => nb.cache.left \in 0 .. NbTtl
  BY <1>1 DEF NbStates
<1>6. nb.cache # Null => nb.cache.left + 0 <= NbTtl
  BY <1>1, <1>5
<1>7. NbSound(t)
  BY <1>3, <1>4, <1>6 DEF NbSound
<1>8. Awaited(t)
  BY <1>2, <1>3 DEF Awaited
<1>9. QED
  BY <1>7, <1>8 DEF t

LEMMA OpenBellInv ==
    ASSUME NbInv, OpenBell
    PROVE  NbInv'
<1> DEFINE s == [nb EXCEPT !.open = TRUE]
<1>1. nb \in NbStates /\ NbSound(nb)
  BY DEF NbInv, NbSound
<1>2. /\ s \in NbStates /\ s.read = nb.read /\ s.inApp = nb.inApp /\ s.calm = nb.calm /\ s.net = nb.net
      /\ s.cache = nb.cache /\ s.badge = nb.badge
  BY <1>1 DEF NbStates
<1>3. BellActs(FetchOnce(s, "list")) \/ BellActs(s)
  BY DEF OpenBell
<1> HIDE DEF s
<1>4. NbSound(s)
  <2>1. \E n \in Nat : \A m \in nb.net : m.nth <= n
    BY <1>1 DEF NbSound
  <2> QED
    BY <1>1, <1>2, <2>1, NothingRead
<1>5. Awaited(s)
  BY <1>2, SameDue DEF NbInv, Awaited, Counting
<1> DEFINE t == FetchOnce(s, "list")
<1>6. NbSound(t) /\ NetOnly(s, t) /\ (Counting(s) => Counting(t))
  BY <1>4, FetchOnceSound
<1> HIDE DEF t
<1>7. Awaited(t)
  BY <1>5, <1>6, SameDue DEF Awaited, NetOnly
<1>8. QED
  BY <1>3, <1>4, <1>5, <1>6, <1>7, BellActsInv DEF t

LEMMA CloseBellInv ==
    ASSUME NbInv, CloseBell
    PROVE  NbInv'
<1>1. nb \in NbStates /\ NbSound(nb)
  BY DEF NbInv, NbSound
<1>2. nb' = [nb EXCEPT !.open = FALSE]
  BY DEF CloseBell
<1>3. PICK s : s = nb'
  OBVIOUS
<1>4. /\ s \in NbStates /\ s.read = nb.read /\ s.inApp = nb.inApp /\ s.calm = nb.calm /\ s.net = nb.net
      /\ s.cache = nb.cache /\ s.badge = nb.badge
  BY <1>1, <1>2, <1>3 DEF NbStates
<1>5. NbSound(s)
  <2>1. \E n \in Nat : \A m \in nb.net : m.nth <= n
    BY <1>1 DEF NbSound
  <2> QED
    BY <1>1, <1>4, <2>1, NothingRead
<1>6. Awaited(s)
  BY <1>4, SameDue DEF NbInv, Awaited, Counting
<1>7. QED
  BY <1>3, <1>5, <1>6 DEF NbInv

(* A reading is asked for, here or elsewhere.                              *)
LEMMA ReadingAsked ==
    ASSUME NbInv, NEW id \in Nat \cup {Null},
           NEW do \in {"read", "all", "read_elsewhere", "all_elsewhere"}, BellActs(Ask(nb, do, id))
    PROVE  NbInv'
<1> DEFINE t == Ask(nb, do, id)
<1>1. NbSound(nb) /\ Awaited(nb)
  BY DEF NbInv
<1>2. NbSound(t) /\ NetOnly(nb, t) /\ (Counting(nb) => Counting(t))
  BY <1>1, AskSound
<1> HIDE DEF t
<1>3. Awaited(t)
  BY <1>1, <1>2, SameDue DEF Awaited, NetOnly
<1>4. QED
  BY <1>2, <1>3, BellActsInv DEF t

LEMMA MarkInv ==
    ASSUME NbInv, MarkRead \/ MarkAll \/ MarkElsewhere
    PROVE  NbInv'
<1>1. nb \in NbStates
  BY DEF NbInv, NbSound
<1>2. nb.list # Null => DOMAIN nb.list \subseteq Nat
  BY <1>1 DEF NbStates
<1>3. DOMAIN nb.read \subseteq Nat
  BY <1>1 DEF NbStates
<1>4. CASE MarkRead
  BY <1>2, <1>4, ReadingAsked DEF MarkRead
<1>5. CASE MarkAll
  BY <1>5, ReadingAsked DEF MarkAll
<1>6. CASE MarkElsewhere
  BY <1>3, <1>6, ReadingAsked DEF MarkElsewhere
<1>7. QED
  BY <1>4, <1>5, <1>6

LEMMA CreateNotificationInv ==
    ASSUME NbInv, CreateNotification
    PROVE  NbInv'
<1> DEFINE read == Append(nb.read, FALSE)
<1> DEFINE s == [nb EXCEPT !.read = read, !.calm = 0, !.net = nb.net]
<1>1. nb \in NbStates /\ NbSound(nb)
  BY DEF NbInv, NbSound
<1>2. read \in Seq(BOOLEAN) /\ nb.net \in SUBSET NbRequests
  BY <1>1 DEF NbStates
<1>3. BellActs(s)
  <2>1. [nb EXCEPT !.read = Append(@, FALSE), !.calm = 0] = s
    BY <1>1 DEF NbStates
  <2> QED
    BY <2>1 DEF CreateNotification
<1>4. \E n \in Nat : \A m \in nb.net : m.nth <= n
  BY <1>1 DEF NbSound
<1> HIDE DEF read
<1>5. NbSound(s) /\ Awaited(s)
  BY <1>1, <1>2, <1>4, ReadingChanges
<1>6. QED
  BY <1>3, <1>5, BellActsInv

LEMMA ExpireInv ==
    ASSUME NbInv, Expire
    PROVE  NbInv'
<1>1. nb \in NbStates /\ NbSound(nb)
  BY DEF NbInv, NbSound
<1>2. nb' = [nb EXCEPT !.cache = Null]
  BY DEF Expire
<1>3. PICK s : s = nb'
  OBVIOUS
<1>4. /\ s \in NbStates /\ s.read = nb.read /\ s.inApp = nb.inApp /\ s.calm = nb.calm /\ s.net = nb.net
      /\ s.cache = Null /\ s.badge = nb.badge
  BY <1>1, <1>2, <1>3 DEF NbStates
<1>5. NbSound(s)
  <2>1. \E n \in Nat : \A m \in nb.net : m.nth <= n
    BY <1>1 DEF NbSound
  <2> QED
    BY <1>1, <1>4, <2>1, NothingRead
<1>6. Awaited(s)
  BY <1>4, SameDue DEF NbInv, Awaited, Counting
<1>7. QED
  BY <1>3, <1>5, <1>6 DEF NbInv


(* What the invariant says of a request under way.                         *)
LEMMA RequestFacts ==
    ASSUME NbInv, NEW m \in nb.net
    PROVE  /\ nb \in NbStates /\ NbSound(nb) /\ m \in NbRequests /\ RequestHolds(nb, m)
           /\ nb.cache \in [n : Nat, left : 0 .. NbTtl] \cup {Null} /\ nb.calm \in 0 .. NbTtl + 1
           /\ Unread(nb) \in Nat /\ NbTtl \in Nat /\ nb.inApp \in BOOLEAN
           /\ nb.cache # Null /\ nb.cache.n # Unread(nb) => nb.cache.left + nb.calm <= NbTtl
BY UnreadIsNumber, NbAssumption DEF NbInv, NbSound, NbStates

(* A number comes from the cache only if it may be wrong no longer, and a  *)
(* number that was counted is cached for what it was worth then.           *)
LEMMA CountUnreadInv ==
    ASSUME NbInv, NEW m \in nb.net, CountUnread(m)
    PROVE  NbInv'
<1>1. /\ nb \in NbStates /\ m \in NbRequests /\ RequestHolds(nb, m) /\ m.do = "count"
      /\ nb.cache \in [n : Nat, left : 0 .. NbTtl] \cup {Null} /\ nb.calm \in 0 .. NbTtl + 1
      /\ Unread(nb) \in Nat /\ NbTtl \in Nat /\ nb.inApp \in BOOLEAN
      /\ nb.cache # Null /\ nb.cache.n # Unread(nb) => nb.cache.left + nb.calm <= NbTtl
  BY RequestFacts DEF CountUnread
<1>2. ASSUME NEW got \in Nat, nb.calm = NbTtl + 1 \/ ~nb.inApp => got = Due(nb),
             NEW cache \in [n : Nat, left : 0 .. NbTtl] \cup {Null},
             cache = nb.cache \/ (cache # Null /\ cache.n # Unread(nb) => cache.left + nb.calm <= NbTtl),
             nb' = [nb EXCEPT !.cache = cache,
                              !.net = (nb.net \ {m}) \cup {[m EXCEPT !.step = "answered", !.got = got]}]
      PROVE  NbInv'
  <2> DEFINE to == [m EXCEPT !.step = "answered", !.got = got]
  <2>1. /\ to \in NbRequests /\ to.nth = m.nth /\ to.do = m.do /\ to.dropped = m.dropped
        /\ to.step = "answered" /\ to.got = got
    BY <1>1, <1>2 DEF NbRequests
  <2>2. nb' = [nb EXCEPT !.cache = cache, !.net = (nb.net \ {m}) \cup {to}]
    BY <1>2
  <2> HIDE DEF to
  <2>3. RequestHolds(nb, to)
    BY <1>1, <1>2, <2>1 DEF RequestHolds
  <2> QED
    BY <1>2, <2>1, <2>2, <2>3, RequestMoves
<1>3. \/ m.step = "sent" /\ ~nb.inApp /\ Gets(m, 0, nb)
      \/ m.step = "sent" /\ nb.inApp /\ nb.cache # Null /\ Gets(m, nb.cache.n, nb)
      \/ m.step = "sent" /\ nb.inApp /\ nb.cache = Null /\ Goes(m, "missed", nb)
      \/ m.step = "missed" /\ nb' = [nb EXCEPT !.net = (@ \ {m}) \cup
                                        {[m EXCEPT !.step = "counted", !.got = Unread(nb)]}]
      \/ m.step = "counted" /\ Gets(m, m.got, [nb EXCEPT !.cache = CachedCount(m.got)])
  BY DEF CountUnread
<1>4. CASE m.step = "sent" /\ ~nb.inApp /\ Gets(m, 0, nb)
  <2> DEFINE got == 0
  <2>1. nb' = [nb EXCEPT !.cache = nb.cache,
                         !.net = (nb.net \ {m}) \cup {[m EXCEPT !.step = "answered", !.got = got]}]
    BY <1>1, <1>4 DEF Gets, NbStates
  <2>2. Due(nb) = got /\ got \in Nat
    BY <1>4 DEF Due
  <2> HIDE DEF got
  <2> QED
    BY <1>1, <1>2, <2>1, <2>2
<1>5. CASE m.step = "sent" /\ nb.inApp /\ nb.cache # Null /\ Gets(m, nb.cache.n, nb)
  <2>1. nb' = [nb EXCEPT !.cache = nb.cache,
                         !.net = (nb.net \ {m}) \cup {[m EXCEPT !.step = "answered", !.got = nb.cache.n]}]
    BY <1>1, <1>5 DEF Gets, NbStates
  <2>2. nb.cache.n \in Nat /\ nb.cache.left \in 0 .. NbTtl
    BY <1>1, <1>5
  <2>3. nb.calm = NbTtl + 1 => nb.cache.n = Due(nb)
    <3>1. nb.calm = NbTtl + 1 => ~(nb.cache.left + nb.calm <= NbTtl)
      BY <1>1, <2>2
    <3> QED
      BY <1>1, <1>5, <3>1 DEF Due
  <2> QED
    BY <1>1, <1>2, <1>5, <2>1, <2>2, <2>3
<1>6. CASE m.step = "sent" /\ nb.inApp /\ nb.cache = Null /\ Goes(m, "missed", nb)
  <2> DEFINE to == [m EXCEPT !.step = "missed"]
  <2>1. nb' = [nb EXCEPT !.cache = nb.cache, !.net = (nb.net \ {m}) \cup {to}]
    BY <1>1, <1>6 DEF Goes, NbStates
  <2>2. /\ to \in NbRequests /\ to.nth = m.nth /\ to.do = m.do /\ to.dropped = m.dropped
        /\ to.step = "missed"
    BY <1>1 DEF NbRequests
  <2> HIDE DEF to
  <2>3. RequestHolds(nb, to)
    BY <1>1, <1>6, <2>2 DEF RequestHolds
  <2> QED
    BY <1>1, <2>1, <2>2, <2>3, RequestMoves
<1>7. CASE m.step = "missed" /\ nb' = [nb EXCEPT !.net = (@ \ {m}) \cup
                                         {[m EXCEPT !.step = "counted", !.got = Unread(nb)]}]
  <2> DEFINE to == [m EXCEPT !.step = "counted", !.got = Unread(nb)]
  <2>1. nb' = [nb EXCEPT !.cache = nb.cache, !.net = (nb.net \ {m}) \cup {to}]
    BY <1>1, <1>7 DEF NbStates
  <2>2. /\ to \in NbRequests /\ to.nth = m.nth /\ to.do = m.do /\ to.dropped = m.dropped
        /\ to.step = "counted" /\ to.got = Unread(nb)
    BY <1>1 DEF NbRequests
  <2> HIDE DEF to
  <2>3. RequestHolds(nb, to)
    BY <1>1, <1>7, <2>2 DEF RequestHolds
  <2> QED
    BY <1>1, <2>1, <2>2, <2>3, RequestMoves
<1>8. CASE m.step = "counted" /\ Gets(m, m.got, [nb EXCEPT !.cache = CachedCount(m.got)])
  <2> DEFINE cache == CachedCount(m.got)
  <2>1. nb' = [nb EXCEPT !.cache = cache,
                         !.net = (nb.net \ {m}) \cup {[m EXCEPT !.step = "answered", !.got = m.got]}]
    BY <1>1, <1>8 DEF Gets, NbStates
  <2>2. m.got \in Nat /\ (nb.calm = 0 \/ m.got = Unread(nb)) /\ nb.inApp
    BY <1>1, <1>8 DEF RequestHolds
  <2>3. NbTtl \in 0 .. NbTtl
    BY <1>1
  <2>4. cache \in [n : Nat, left : 0 .. NbTtl] /\ cache.n = m.got /\ cache.left = NbTtl
    BY <2>2, <2>3 DEF CachedCount
  <2> HIDE DEF cache
  <2>5. cache.n # Unread(nb) => cache.left + nb.calm <= NbTtl
    <3>1. NbTtl + 0 <= NbTtl
      BY <1>1
    <3> QED
      BY <2>2, <2>4, <3>1
  <2>6. nb.calm = NbTtl + 1 => m.got = Due(nb)
    <3>1. 0 # NbTtl + 1
      BY <1>1
    <3> QED
      BY <2>2, <3>1 DEF Due
  <2> QED
    BY <1>2, <2>1, <2>2, <2>4, <2>5, <2>6
<1>9. QED
  BY <1>3, <1>4, <1>5, <1>6, <1>7, <1>8

LEMMA ListNotificationsInv ==
    ASSUME NbInv, NEW m \in nb.net, ListNotifications(m)
    PROVE  NbInv'
<1> DEFINE seen == IF nb.inApp THEN nb.read ELSE <<>>
<1> DEFINE to == [m EXCEPT !.step = "answered", !.seen = seen]
<1>1. /\ nb \in NbStates /\ m \in NbRequests /\ m.do = "list"
      /\ nb.cache \in [n : Nat, left : 0 .. NbTtl] \cup {Null}
  BY RequestFacts DEF ListNotifications
<1>2. seen \in Seq(BOOLEAN)
  <2>1. nb.read \in Seq(BOOLEAN)
    BY <1>1 DEF NbStates
  <2>2. <<>> \in Seq(BOOLEAN)
    OBVIOUS
  <2> QED
    BY <2>1, <2>2
<1>3. nb' = [nb EXCEPT !.cache = nb.cache, !.net = (nb.net \ {m}) \cup {to}]
  BY <1>1 DEF ListNotifications, NbStates
<1> HIDE DEF seen
<1>4. /\ to \in NbRequests /\ to.nth = m.nth /\ to.do = m.do /\ to.dropped = m.dropped
      /\ to.step = "answered"
  BY <1>1, <1>2 DEF NbRequests
<1> HIDE DEF to
<1>5. RequestHolds(nb, to)
  BY <1>1, <1>4 DEF RequestHolds
<1>6. QED
  BY <1>1, <1>3, <1>4, <1>5, RequestMoves

(* A reading commits.                                                      *)
LEMMA ReadingCommits ==
    ASSUME NbInv, NEW m \in nb.net, NEW read \in Seq(BOOLEAN), m.do \notin {"count", "list"},
           nb' = [nb EXCEPT !.read = read, !.calm = 0,
                            !.net = (nb.net \ {m}) \cup {[m EXCEPT !.step = "committed"]}]
    PROVE  NbInv'
<1> DEFINE to == [m EXCEPT !.step = "committed"]
<1> DEFINE net == (nb.net \ {m}) \cup {to}
<1>1. nb \in NbStates /\ NbSound(nb) /\ m \in NbRequests /\ nb.net \subseteq NbRequests
  BY RequestFacts DEF NbStates
<1>2. to \in NbRequests /\ to.nth = m.nth /\ to.do = m.do /\ to.step = "committed"
  BY <1>1 DEF NbRequests
<1>3. nb' = [nb EXCEPT !.read = read, !.calm = 0, !.net = net]
  OBVIOUS
<1> HIDE DEF to
<1>4. net \in SUBSET NbRequests
  BY <1>1, <1>2
<1>5. \E n \in Nat : \A o \in net : o.nth <= n
  BY <1>1, <1>2 DEF NbSound
<1>6. \A o \in net : o \in nb.net \/ (o.step = "committed" /\ o.do \notin {"count", "list"})
  BY <1>2
<1> HIDE DEF net
<1>7. NbSound([nb EXCEPT !.read = read, !.calm = 0, !.net = net])
      /\ Awaited([nb EXCEPT !.read = read, !.calm = 0, !.net = net])
  BY <1>1, <1>4, <1>5, <1>6, ReadingChanges
<1>8. QED
  BY <1>3, <1>7 DEF NbInv

(* The cache is told of a reading only after its commit: in the interval   *)
(* in which it may be told something wrong.                                *)
LEMMA ReadingAnswered ==
    ASSUME NbInv, NEW m \in nb.net, m.step = "committed",
           NEW cache \in [n : Nat, left : 0 .. NbTtl] \cup {Null}, cache # Null => cache.left = NbTtl,
           nb' = [nb EXCEPT !.cache = cache, !.net = (nb.net \ {m}) \cup {[m EXCEPT !.step = "answered"]}]
    PROVE  NbInv'
<1> DEFINE to == [m EXCEPT !.step = "answered"]
<1>1. /\ m \in NbRequests /\ NbTtl \in Nat /\ nb.calm = 0 /\ m.do \notin {"count", "list"}
  BY RequestFacts DEF RequestHolds
<1>2. /\ to \in NbRequests /\ to.nth = m.nth /\ to.do = m.do /\ to.dropped = m.dropped
      /\ to.step = "answered"
  BY <1>1 DEF NbRequests
<1>3. nb' = [nb EXCEPT !.cache = cache, !.net = (nb.net \ {m}) \cup {to}]
  OBVIOUS
<1> HIDE DEF to
<1>4. RequestHolds(nb, to)
  BY <1>1, <1>2 DEF RequestHolds
<1>5. cache # Null => cache.left + nb.calm <= NbTtl
  BY <1>1
<1>6. QED
  BY <1>2, <1>3, <1>4, <1>5, RequestMoves

LEMMA ReadingInv ==
    ASSUME NbInv, NEW m \in nb.net, MarkNotificationRead(m) \/ MarkAllRead(m)
    PROVE  NbInv'
<1>1. nb \in NbStates /\ nb.read \in Seq(BOOLEAN) /\ NbTtl \in Nat
  BY RequestFacts DEF NbStates
<1>2. m.do \notin {"count", "list"}
  BY DEF MarkNotificationRead, MarkAllRead
<1>3. \/ \E read \in Seq(BOOLEAN) :
           nb' = [nb EXCEPT !.read = read, !.calm = 0,
                            !.net = (nb.net \ {m}) \cup {[m EXCEPT !.step = "committed"]}]
      \/ /\ m.step = "committed"
         /\ \E cache \in {Null, CachedCount(0)} :
              nb' = [nb EXCEPT !.cache = cache, !.net = (nb.net \ {m}) \cup {[m EXCEPT !.step = "answered"]}]
  <2>1. CASE MarkNotificationRead(m) /\ m.step = "sent"
    <3>1. [nb.read EXCEPT ![m.id] = TRUE] \in Seq(BOOLEAN)
      <4>1. PICK n \in Nat : nb.read \in [1 .. n -> BOOLEAN]
        BY <1>1, SeqDef
      <4>2. [nb.read EXCEPT ![m.id] = TRUE] \in [1 .. n -> BOOLEAN]
        BY <4>1
      <4> QED
        BY <4>2, SeqDef, ZenonT(60)
    <3>2. nb' = [nb EXCEPT !.read = [nb.read EXCEPT ![m.id] = TRUE], !.calm = 0,
                           !.net = (nb.net \ {m}) \cup {[m EXCEPT !.step = "committed"]}]
      BY <1>1, <2>1 DEF MarkNotificationRead, Goes, NbStates
    <3> QED
      BY <3>1, <3>2
  <2>2. CASE MarkNotificationRead(m) /\ m.step = "committed"
    BY <1>1, <2>2 DEF MarkNotificationRead, Goes, NbStates
  <2>3. CASE MarkAllRead(m) /\ m.step = "sent"
    <3>1. [id \in DOMAIN nb.read |-> TRUE] \in Seq(BOOLEAN)
      <4>1. PICK n \in Nat : DOMAIN nb.read = 1 .. n
        BY <1>1
      <4>2. [id \in DOMAIN nb.read |-> TRUE] \in [1 .. n -> BOOLEAN]
        BY <4>1
      <4> QED
        BY <4>2, SeqDef, ZenonT(60)
    <3>2. nb' = [nb EXCEPT !.read = [id \in DOMAIN nb.read |-> TRUE], !.calm = 0,
                           !.net = (nb.net \ {m}) \cup {[m EXCEPT !.step = "committed"]}]
      BY <1>1, <2>3 DEF MarkAllRead, Goes, NbStates
    <3> QED
      BY <3>1, <3>2
  <2>4. CASE MarkAllRead(m) /\ m.step = "committed"
    BY <1>1, <2>4 DEF MarkAllRead, Goes, NbStates
  <2> QED
    BY <2>1, <2>2, <2>3, <2>4 DEF MarkNotificationRead, MarkAllRead
<1>4. CachedCount(0) \in [n : Nat, left : 0 .. NbTtl] /\ CachedCount(0).left = NbTtl
  BY <1>1 DEF CachedCount
<1>5. QED
  BY <1>2, <1>3, <1>4, ReadingCommits, ReadingAnswered


(* What is answered is shown, unless it was given up; the user's own       *)
(* readings refresh it.                                                    *)
LEMMA AnsweredInv ==
    ASSUME NbInv, NEW m \in nb.net, Answered(m)
    PROVE  NbInv'
<1> DEFINE net == nb.net \ {m}
<1> DEFINE s == [nb EXCEPT !.net = net]
<1>1. /\ nb \in NbStates /\ NbSound(nb) /\ m \in NbRequests /\ RequestHolds(nb, m) /\ m.step = "answered"
  BY RequestFacts DEF Answered
<1>2. /\ s \in NbStates /\ s.read = nb.read /\ s.inApp = nb.inApp /\ s.calm = nb.calm /\ s.net = net
      /\ s.cache = nb.cache /\ s.badge = nb.badge
  BY <1>1 DEF NbStates
<1>3. nb' = CASE m.do \in {"read", "all"} -> Refresh(s)
              [] m.do = "count" /\ ~m.dropped -> [s EXCEPT !.badge = m.got]
              [] m.do = "list" /\ ~m.dropped -> [s EXCEPT !.list = m.seen]
              [] OTHER -> s
  BY DEF Answered
<1> HIDE DEF s
<1>4. NbSound(s)
  <2>1. (\E n \in Nat : \A o \in net : o.nth <= n) /\ \A o \in net : o \in nb.net
    BY <1>1 DEF NbSound
  <2> HIDE DEF net
  <2> QED
    BY <1>1, <1>2, <2>1, NothingRead
<1>5. ~(m.do = "count" /\ ~m.dropped) => Awaited(s)
  <2>1. ~(m.do = "count" /\ ~m.dropped) /\ Counting(nb) => Counting(s)
    BY <1>2 DEF Counting
  <2> QED
    BY <1>2, <2>1, SameDue DEF NbInv, Awaited
<1>6. CASE m.do \in {"read", "all"}
  <2>1. nb' = Refresh(s)
    BY <1>3, <1>6
  <2>2. NbSound(Refresh(s)) /\ Awaited(Refresh(s))
    BY <1>4, RefreshSound DEF Awaited
  <2> QED
    BY <2>1, <2>2 DEF NbInv
<1>7. CASE m.do = "count" /\ ~m.dropped
  <2>1. nb' = [s EXCEPT !.badge = m.got]
    BY <1>3, <1>7
  <2>2. m.got \in Nat /\ (nb.calm = NbTtl + 1 => m.got = Due(nb))
    BY <1>1, <1>7 DEF RequestHolds
  <2>3. PICK t : t = nb'
    OBVIOUS
  <2>4. /\ t \in NbStates /\ t.read = s.read /\ t.inApp = s.inApp /\ t.calm = s.calm /\ t.net = s.net
        /\ t.cache = s.cache /\ t.badge = m.got
    BY <1>2, <2>1, <2>2, <2>3 DEF NbStates
  <2>5. NbSound(t)
    <3>1. \E n \in Nat : \A o \in s.net : o.nth <= n
      BY <1>4 DEF NbSound
    <3> QED
      BY <1>4, <2>4, <3>1, NothingRead
  <2>6. Awaited(t)
    <3>1. Due(t) = Due(nb) /\ t.calm = nb.calm
      BY <1>2, <2>4, SameDue
    <3> QED
      BY <2>2, <2>4, <3>1 DEF Awaited
  <2> QED
    BY <2>3, <2>5, <2>6 DEF NbInv
<1>8. CASE m.do = "list" /\ ~m.dropped
  <2>1. nb' = [s EXCEPT !.list = m.seen]
    BY <1>3, <1>8
  <2>2. m.seen \in Seq(BOOLEAN) \cup {Null}
    BY <1>1 DEF NbRequests
  <2>3. PICK t : t = nb'
    OBVIOUS
  <2>4. /\ t \in NbStates /\ t.read = s.read /\ t.inApp = s.inApp /\ t.calm = s.calm /\ t.net = s.net
        /\ t.cache = s.cache /\ t.badge = s.badge
    BY <1>2, <2>1, <2>2, <2>3 DEF NbStates
  <2>5. NbSound(t)
    <3>1. \E n \in Nat : \A o \in s.net : o.nth <= n
      BY <1>4 DEF NbSound
    <3> QED
      BY <1>4, <2>4, <3>1, NothingRead
  <2>6. Awaited(t)
    BY <1>5, <1>8, <2>4, SameDue DEF Awaited, Counting
  <2> QED
    BY <2>3, <2>5, <2>6 DEF NbInv
<1>9. CASE m.do \notin {"read", "all"} /\ (m.do \notin {"count", "list"} \/ m.dropped)
  <2>1. nb' = s
    BY <1>3, <1>9
  <2>2. Awaited(s)
    BY <1>5, <1>9
  <2> QED
    BY <1>4, <2>1, <2>2 DEF NbInv
<1>10. QED
  BY <1>6, <1>7, <1>8, <1>9

LEMMA LesserOfTwo ==
    ASSUME NEW a \in Nat, NEW b \in Nat
    PROVE  Min({a, b}) = IF a <= b THEN a ELSE b
<1> DEFINE c == IF a <= b THEN a ELSE b
<1>1. c \in {a, b} /\ \A y \in {a, b} : c <= y
  OBVIOUS
<1>2. \A x \in {a, b} : (\A y \in {a, b} : x <= y) => x = c
  OBVIOUS
<1>3. QED
  BY <1>1, <1>2 DEF Min

(* An interval passes only when every request is answered: what is wrong   *)
(* in the cache grows as old as the last change.                           *)
LEMMA IntervalInv ==
    ASSUME NbInv, Interval
    PROVE  NbInv'
<1> DEFINE calm == Min({nb.calm + 1, NbTtl + 1})
<1> DEFINE cache == Older(nb.cache)
<1> DEFINE aged == [nb EXCEPT !.calm = calm, !.cache = cache]
<1>1. /\ nb \in NbStates /\ nb.net = {} /\ nb.calm \in 0 .. NbTtl + 1 /\ NbTtl \in Nat
      /\ nb.cache \in [n : Nat, left : 0 .. NbTtl] \cup {Null}
      /\ nb.cache # Null /\ nb.cache.n # Unread(nb) => nb.cache.left + nb.calm <= NbTtl
  BY NbAssumption DEF NbInv, NbSound, NbStates, Interval
<1>2. nb' = FetchOnce(aged, "count")
  BY DEF Interval
<1>3. calm \in 0 .. NbTtl + 1 /\ calm <= nb.calm + 1
  <2>1. nb.calm + 1 \in Nat /\ NbTtl + 1 \in Nat
    BY <1>1
  <2>2. calm = IF nb.calm + 1 <= NbTtl + 1 THEN nb.calm + 1 ELSE NbTtl + 1
    BY <2>1, LesserOfTwo
  <2> HIDE DEF calm
  <2> QED
    BY <1>1, <2>2
<1>4. cache = Null \/ /\ nb.cache # Null /\ cache \in [n : Nat, left : 0 .. NbTtl]
                      /\ cache.n = nb.cache.n /\ cache.left = nb.cache.left - 1
  <2>1. CASE nb.cache = Null \/ nb.cache.left = 0
    BY <2>1 DEF Older
  <2>2. CASE nb.cache # Null /\ nb.cache.left # 0
    <3>1. nb.cache \in [n : Nat, left : 0 .. NbTtl] /\ nb.cache.left \in 0 .. NbTtl
      BY <1>1, <2>2
    <3>2. nb.cache.left - 1 \in 0 .. NbTtl
      BY <1>1, <2>2, <3>1
    <3>3. cache = [nb.cache EXCEPT !.left = nb.cache.left - 1]
      BY <2>2 DEF Older
    <3> QED
      BY <2>2, <3>1, <3>2, <3>3
  <2> QED
    BY <2>1, <2>2
<1> HIDE DEF calm, cache
<1>5. /\ aged \in NbStates /\ aged.read = nb.read /\ aged.net = {} /\ aged.calm = calm
      /\ aged.cache = cache
  BY <1>1, <1>3, <1>4 DEF NbStates
<1> HIDE DEF aged
<1>6. Unread(aged) = Unread(nb)
  BY <1>5 DEF Unread
<1>7. cache # Null /\ cache.n # Unread(nb) => cache.left + calm <= NbTtl
  <2>1. SUFFICES ASSUME cache # Null, cache.n # Unread(nb) PROVE cache.left + calm <= NbTtl
    OBVIOUS
  <2>2. nb.cache # Null /\ nb.cache.n # Unread(nb) /\ cache.left = nb.cache.left - 1
    BY <1>4, <2>1
  <2>3. nb.cache.left + nb.calm <= NbTtl /\ nb.cache.left \in 0 .. NbTtl
    BY <1>1, <2>2
  <2>4. nb.cache.left - 1 + calm <= NbTtl
    BY <1>1, <1>3, <2>3
  <2> QED
    BY <2>2, <2>4
<1>8. NbSound(aged)
  BY <1>5, <1>6, <1>7 DEF NbSound
<1>9. NbSound(FetchOnce(aged, "count")) /\ Counting(FetchOnce(aged, "count"))
  BY <1>8, FetchOnceSound
<1>10. QED
  BY <1>2, <1>9 DEF NbInv, Awaited

LEMMA NbInitInv == NbInit => NbInv
<1>1. SUFFICES ASSUME NEW inApp \in BOOLEAN,
                      nb = FetchOnce([read |-> <<FALSE>>, cache |-> Null, inApp |-> inApp, badge |-> Null,
                                      list |-> Null, open |-> FALSE, net |-> {}, calm |-> 0, ops |-> NbOps], "count")
               PROVE  NbInv
  BY DEF NbInit
<1> DEFINE read == <<FALSE>>
<1> DEFINE s == [read |-> read, cache |-> Null, inApp |-> inApp, badge |-> Null,
                 list |-> Null, open |-> FALSE, net |-> {}, calm |-> 0, ops |-> NbOps]
<1>2. read \in Seq(BOOLEAN) /\ NbOps \in Int /\ 0 \in 0 .. NbTtl + 1
  BY NbAssumption
<1>3. nb = FetchOnce(s, "count")
  BY <1>1
<1> HIDE DEF read
<1>4. s \in NbStates /\ s.net = {} /\ s.cache = Null
  BY <1>2 DEF NbStates
<1> HIDE DEF s
<1>5. NbSound(s)
  BY <1>4 DEF NbSound
<1>6. NbSound(nb) /\ Counting(nb)
  BY <1>3, <1>5, FetchOnceSound
<1>7. QED
  BY <1>6 DEF NbInv, Awaited

LEMMA NbNextInv ==
    ASSUME NbInv, [NbNext]_nb
    PROVE  NbInv'
<1>1. CASE UNCHANGED nb
  BY <1>1 DEF NbInv
<1>2. CASE OpenBell \/ CloseBell \/ MarkRead \/ MarkAll \/ MarkElsewhere
  BY <1>2, OpenBellInv, CloseBellInv, MarkInv
<1>3. CASE CreateNotification \/ Expire \/ Interval
  BY <1>3, CreateNotificationInv, ExpireInv, IntervalInv
<1>4. CASE \E m \in nb.net : InboxRequest(m)
  BY <1>4, CountUnreadInv, ListNotificationsInv, ReadingInv, AnsweredInv DEF InboxRequest
<1>5. QED
  BY <1>1, <1>2, <1>3, <1>4 DEF NbNext

(* The invariant, whatever the time to live and however many notifications *)
(* and requests: a wrong number is no older than the last change           *)
(* (unread_count, mark_notification_read, mark_all_read).                  *)
THEOREM BellInvariant == NbSpec => []NbInv
<1>1. NbInit => NbInv
  BY NbInitInv
<1>2. NbInv /\ [NbNext]_nb => NbInv'
  BY NbNextInv
<1>3. QED
  BY <1>1, <1>2, PTL DEF NbSpec

LEMMA NbInvSuffices == NbInv => BadgeCatchesUp
BY DEF NbInv, Awaited, Counting, Due, BadgeCatchesUp


-----------------------------------------------------------------------------
(* Who else is here.                                                       *)


CoMessages == [type : {"snapshot"}, users : SUBSET Sessions]
              \cup [type : {"joined", "left"}, user : Sessions] \cup [type : {"event"}]
CoSteps == {"asked", "greeting", "broadcast", "telling", "receiving", "leaving", "over"}

(* What a handler has to tell is about the session it is of.               *)
IsSocket(x) ==
    /\ x \in [session : Sessions, open : BOOLEAN, step : CoSteps, inbox : Seq(CoMessages),
              shown : [Sessions -> {0, 1}], tell : {x.tell}, to : {x.to}, undone : {x.undone}]
    /\ x.step = "greeting" => x.tell \in CoMessages /\ x.tell.type = "snapshot"
    /\ x.step \in {"broadcast", "telling"} =>
         x.tell \in CoMessages /\ x.tell.type # "snapshot"
           /\ (x.tell.type \in {"joined", "left"} => x.tell.user = x.session)

CoShape(s) ==
    /\ s \in [sockets : {s.sockets}, room : {s.room}, ops : {s.ops}, torn : BOOLEAN]
    /\ s.sockets \in Seq(Range(s.sockets)) /\ \A c \in DOMAIN s.sockets : IsSocket(s.sockets[c])
    /\ s.room = [k \in DOMAIN s.room |-> s.room[k]] /\ DOMAIN s.room \subseteq Sessions

ActiveSocket(x) == x.step \notin {"asked", "over"}
Leaves(x) == x.step \in {"broadcast", "telling"} /\ x.tell.type = "left"
InRoom(x) == ActiveSocket(x) /\ ~Leaves(x)

(* A session has one socket at a time, and its slot is that socket's.      *)
OneSocket(s) ==
    \A b, c \in DOMAIN s.sockets :
       s.sockets[b].session = s.sockets[c].session /\ ActiveSocket(s.sockets[b])
         /\ ActiveSocket(s.sockets[c]) => b = c
SlotsTrue(s) ==
    /\ \A c \in DOMAIN s.sockets :
         InRoom(s.sockets[c]) => s.sockets[c].session \in DOMAIN s.room /\ s.room[s.sockets[c].session] = c
    /\ \A k \in DOMAIN s.room : \E c \in DOMAIN s.sockets : s.sockets[c].session = k /\ InRoom(s.sockets[c])
LeaversGone(s) ==
    \A c \in DOMAIN s.sockets :
       s.sockets[c].step \in {"leaving", "over"} \/ Leaves(s.sockets[c]) => ~s.sockets[c].open

(* What a client's list says of session k once it has read its inbox.      *)
Of(m, k) == m.type = "snapshot" \/ (m.type \in {"joined", "left"} /\ m.user = k)
Says(m, k) == IF m.type = "snapshot" THEN k \in m.users ELSE m.type = "joined"
WillList(inbox, shown, k) ==
    \/ \E i \in 1..Len(inbox) : /\ Of(inbox[i], k) /\ Says(inbox[i], k)
                                /\ \A j \in 1..Len(inbox) : j > i => ~Of(inbox[j], k)
    \/ shown[k] = 1 /\ \A i \in 1..Len(inbox) : ~Of(inbox[i], k)

(* A client that was not sent its snapshot yet is going to read that last. *)
Inbox(x) == IF x.step = "greeting" THEN Append(x.inbox, x.tell) ELSE x.inbox
Reads(x, k) == WillList(Inbox(x), x.shown, k)

(* Somebody is still to tell socket c that session k came or went.         *)
Telltale(s, d, c) == \/ s.sockets[d].step \in {"greeting", "broadcast"} /\ d # c
                     \/ s.sockets[d].step = "telling" /\ c \in s.sockets[d].to
Owed(s, c, k) == \E d \in DOMAIN s.sockets : /\ s.sockets[d].session = k /\ Telltale(s, d, c)
                                             /\ s.sockets[d].tell.type \in {"joined", "left", "snapshot"}

(* What an open client will list is in the room, but for whom it was told  *)
(* of before its snapshot.                                                 *)
ListsTrue(s) ==
    \A c \in DOMAIN s.sockets : InRoom(s.sockets[c]) /\ s.sockets[c].open =>
       \A k \in Sessions : \/ Owed(s, c, k)
                           \/ k \in s.sockets[c].undone
                           \/ Reads(s.sockets[c], k) <=> k \in DOMAIN s.room

CoSound(s) ==
    /\ CoShape(s)
    /\ ~s.torn => OneSocket(s) /\ SlotsTrue(s) /\ LeaversGone(s) /\ ListsTrue(s)
CoInv == CoSound(co)


(* A message that comes last says what the list will.                      *)
LEMMA ToldLast ==
    ASSUME NEW inbox \in Seq(CoMessages), NEW m \in CoMessages, NEW shown, NEW k
    PROVE  /\ Of(m, k) => (WillList(Append(inbox, m), shown, k) <=> Says(m, k))
           /\ ~Of(m, k) => (WillList(Append(inbox, m), shown, k) <=> WillList(inbox, shown, k))
<1> DEFINE a == Append(inbox, m)
           n == Len(inbox)
<1>1. n \in Nat /\ Len(a) = n + 1 /\ a[n + 1] = m /\ \A i \in 1..n : a[i] = inbox[i]
  BY AppendProperties, LenProperties
<1> HIDE DEF a, n
<1>2. \A i \in 1..(n + 1) : i \in 1..n \/ i = n + 1
  BY <1>1
<1>3. \A i \in 1..n : i \in 1..(n + 1) /\ n + 1 > i /\ ~(i > n + 1)
  BY <1>1
<1>4. n + 1 \in 1..(n + 1)
  BY <1>1
<1>5. ASSUME Of(m, k) PROVE WillList(a, shown, k) <=> Says(m, k)
  <2>1. ASSUME Says(m, k) PROVE WillList(a, shown, k)
    <3>1. \A j \in 1..(n + 1) : ~(j > n + 1)
      BY <1>1
    <3>2. QED
      BY <1>1, <1>4, <1>5, <2>1, <3>1 DEF WillList
  <2>2. ASSUME WillList(a, shown, k) PROVE Says(m, k)
    <3>1. CASE \A i \in 1..(n + 1) : ~Of(a[i], k)
      BY <1>1, <1>4, <1>5, <3>1
    <3>2. CASE \E i \in 1..(n + 1) : Of(a[i], k) /\ Says(a[i], k) /\ \A j \in 1..(n + 1) : j > i => ~Of(a[j], k)
      <4> PICK i \in 1..(n + 1) : Of(a[i], k) /\ Says(a[i], k) /\ \A j \in 1..(n + 1) : j > i => ~Of(a[j], k)
        BY <3>2
      <4>1. i = n + 1
        BY <1>1, <1>2, <1>3, <1>4, <1>5
      <4>2. QED
        BY <1>1, <4>1
    <3>3. QED
      BY <1>1, <2>2, <3>1, <3>2 DEF WillList
  <2>3. QED
    BY <2>1, <2>2
<1>6. ASSUME ~Of(m, k) PROVE WillList(a, shown, k) <=> WillList(inbox, shown, k)
  <2>1. (\A i \in 1..(n + 1) : ~Of(a[i], k)) <=> \A i \in 1..n : ~Of(inbox[i], k)
    BY <1>1, <1>2, <1>3, <1>6
  <2>2. ASSUME NEW i \in 1..n
        PROVE  (\A j \in 1..(n + 1) : j > i => ~Of(a[j], k)) <=> \A j \in 1..n : j > i => ~Of(inbox[j], k)
    BY <1>1, <1>2, <1>3, <1>6
  <2>3. (\E i \in 1..(n + 1) : Of(a[i], k) /\ Says(a[i], k) /\ \A j \in 1..(n + 1) : j > i => ~Of(a[j], k))
        <=> \E i \in 1..n : Of(inbox[i], k) /\ Says(inbox[i], k) /\ \A j \in 1..n : j > i => ~Of(inbox[j], k)
    <3>1. ASSUME NEW i \in 1..(n + 1), Of(a[i], k), Says(a[i], k), \A j \in 1..(n + 1) : j > i => ~Of(a[j], k)
          PROVE  \E h \in 1..n : Of(inbox[h], k) /\ Says(inbox[h], k) /\ \A j \in 1..n : j > h => ~Of(inbox[j], k)
      <4>1. i \in 1..n
        BY <1>1, <1>2, <1>6, <3>1
      <4>2. QED
        BY <1>1, <2>2, <3>1, <4>1
    <3>2. ASSUME NEW i \in 1..n, Of(inbox[i], k), Says(inbox[i], k), \A j \in 1..n : j > i => ~Of(inbox[j], k)
          PROVE  \E h \in 1..(n + 1) : Of(a[h], k) /\ Says(a[h], k) /\ \A j \in 1..(n + 1) : j > h => ~Of(a[j], k)
      BY <1>1, <1>3, <2>2, <3>2
    <3>3. QED
      BY <3>1, <3>2
  <2>4. QED
    BY <1>1, <2>1, <2>3 DEF WillList, n
<1>7. QED
  BY <1>5, <1>6 DEF a

(* Reading a message makes the list say what it would.                     *)
LEMMA ReadFirst ==
    ASSUME NEW inbox \in Seq(CoMessages), inbox # <<>>, NEW shown, NEW now, NEW k,
           now[k] = 1 <=> IF Of(Head(inbox), k) THEN Says(Head(inbox), k) ELSE shown[k] = 1
    PROVE  WillList(Tail(inbox), now, k) <=> WillList(inbox, shown, k)
<1> DEFINE a == Tail(inbox)
           n == Len(a)
           h == Head(inbox)
<1>1. n \in Nat /\ Len(inbox) = n + 1 /\ inbox[1] = h /\ \A i \in 1..n : a[i] = inbox[i + 1]
  BY HeadTailProperties, LenProperties
<1> HIDE DEF a, n, h
<1>2. \A i \in 1..(n + 1) : i = 1 \/ (i - 1 \in 1..n /\ (i - 1) + 1 = i)
  BY <1>1
<1>3. \A i \in 1..n : i + 1 \in 1..(n + 1) /\ i + 1 > 1
  BY <1>1
<1>4. 1 \in 1..(n + 1)
  BY <1>1
<1>5. ASSUME WillList(a, now, k) PROVE WillList(inbox, shown, k)
  <2>1. CASE now[k] = 1 /\ \A i \in 1..n : ~Of(a[i], k)
    <3>1. ASSUME NEW j \in 1..(n + 1), j > 1 PROVE ~Of(inbox[j], k)
      <4>1. j - 1 \in 1..n /\ (j - 1) + 1 = j
        BY <1>1, <3>1
      <4>2. inbox[(j - 1) + 1] = a[j - 1]
        BY <1>1, <4>1
      <4>3. QED
        BY <2>1, <4>1, <4>2
    <3>2. CASE Of(h, k)
      BY <1>1, <1>4, <2>1, <3>1, <3>2 DEF WillList, h
    <3>3. CASE ~Of(h, k)
      <4>1. \A j \in 1..(n + 1) : ~Of(inbox[j], k)
        BY <1>1, <1>2, <2>1, <3>3
      <4>2. QED
        BY <1>1, <2>1, <3>3, <4>1 DEF WillList, h
    <3>4. QED
      BY <3>2, <3>3
  <2>2. CASE \E i \in 1..n : Of(a[i], k) /\ Says(a[i], k) /\ \A j \in 1..n : j > i => ~Of(a[j], k)
    <3> PICK i \in 1..n : Of(a[i], k) /\ Says(a[i], k) /\ \A j \in 1..n : j > i => ~Of(a[j], k)
      BY <2>2
    <3>1. ASSUME NEW j \in 1..(n + 1), j > i + 1 PROVE ~Of(inbox[j], k)
      <4>1. j - 1 \in 1..n /\ j - 1 > i /\ (j - 1) + 1 = j
        BY <1>1, <3>1
      <4>2. QED
        BY <1>1, <4>1
    <3>2. QED
      BY <1>1, <1>3, <3>1 DEF WillList
  <2>3. QED
    BY <1>5, <2>1, <2>2 DEF WillList, n
<1>6. ASSUME WillList(inbox, shown, k) PROVE WillList(a, now, k)
  <2>1. CASE shown[k] = 1 /\ \A i \in 1..(n + 1) : ~Of(inbox[i], k)
    <3>1. \A i \in 1..n : ~Of(a[i], k)
      BY <1>1, <1>3, <2>1
    <3>2. QED
      BY <1>1, <1>4, <2>1, <3>1 DEF WillList, h, n
  <2>2. CASE \E i \in 1..(n + 1) : Of(inbox[i], k) /\ Says(inbox[i], k)
                                  /\ \A j \in 1..(n + 1) : j > i => ~Of(inbox[j], k)
    <3> PICK i \in 1..(n + 1) : Of(inbox[i], k) /\ Says(inbox[i], k)
                                /\ \A j \in 1..(n + 1) : j > i => ~Of(inbox[j], k)
      BY <2>2
    <3>1. CASE i = 1
      <4>1. \A j \in 1..n : ~Of(a[j], k)
        BY <1>1, <1>3, <3>1
      <4>2. QED
        BY <1>1, <3>1, <4>1 DEF WillList, h, n
    <3>2. CASE i # 1
      <4>1. i - 1 \in 1..n /\ (i - 1) + 1 = i
        BY <1>2, <3>2
      <4>2. ASSUME NEW j \in 1..n, j > i - 1 PROVE ~Of(a[j], k)
        <5>1. j + 1 \in 1..(n + 1) /\ j + 1 > i
          BY <1>1, <4>1, <4>2
        <5>2. QED
          BY <1>1, <5>1
      <4>3. Of(a[i - 1], k) /\ Says(a[i - 1], k)
        BY <1>1, <4>1
      <4>4. QED
        BY <4>1, <4>2, <4>3 DEF WillList, n
    <3>3. QED
      BY <3>1, <3>2
  <2>3. QED
    BY <1>1, <1>6, <2>1, <2>2 DEF WillList
<1>7. QED
  BY <1>5, <1>6 DEF a

(* The sockets stay a sequence when one of them changes.                   *)
Changes(s, t, c, y) ==
    /\ t \in [sockets : {t.sockets}, room : {t.room}, ops : {t.ops}, torn : BOOLEAN]
    /\ t.sockets = [s.sockets EXCEPT ![c] = y]
    /\ t.room = [k \in DOMAIN t.room |-> t.room[k]] /\ DOMAIN t.room \subseteq Sessions

LEMMA OneChanges ==
    ASSUME NEW s, NEW t, NEW c, NEW y, CoShape(s), c \in DOMAIN s.sockets, IsSocket(y), Changes(s, t, c, y)
    PROVE  /\ CoShape(t) /\ DOMAIN t.sockets = DOMAIN s.sockets
           /\ t.sockets[c] = y /\ \A b \in DOMAIN s.sockets \ {c} : t.sockets[b] = s.sockets[b]
<1> DEFINE r == [s.sockets EXCEPT ![c] = y]
           n == Len(s.sockets)
<1>1. n \in Nat /\ DOMAIN s.sockets = 1..n
  BY LenProperties DEF CoShape
<1>2. /\ DOMAIN r = 1..n /\ r[c] = y /\ r = [b \in 1..n |-> r[b]]
      /\ \A b \in DOMAIN s.sockets \ {c} : r[b] = s.sockets[b]
  <2>1. s.sockets = [b \in 1..n |-> s.sockets[b]]
    BY <1>1 DEF CoShape
  <2> HIDE DEF n
  <2>2. QED
    BY <1>1, <2>1
<1> HIDE DEF r, n
<1>3. r \in Seq(Range(r))
  <2>1. r \in [1..n -> Range(r)]
    BY <1>2 DEF Range
  <2>2. QED
    BY <1>1, <2>1, SeqDef
<1>4. \A b \in DOMAIN r : IsSocket(r[b])
  BY <1>1, <1>2 DEF CoShape
<1>5. t.sockets = r
  BY DEF Changes, r
<1>6. QED
  BY <1>1, <1>2, <1>3, <1>4, <1>5 DEF CoShape, Changes

(* A socket in the state is one, and what else there is has its shape.     *)
LEMMA SocketShape ==
    ASSUME CoInv
    PROVE  /\ CoShape(co) /\ co.torn \in BOOLEAN /\ \A c \in DOMAIN co.sockets : IsSocket(co.sockets[c])
           /\ co.room = [k \in DOMAIN co.room |-> co.room[k]] /\ DOMAIN co.room \subseteq Sessions
BY DEF CoInv, CoSound, CoShape

(* What sessions are there changes only with the room.                     *)
LEMMA RoomStays ==
    ASSUME CoInv, NEW t, DOMAIN t.sockets = DOMAIN co.sockets, t.room = co.room, ~co.torn,
           \A b \in DOMAIN co.sockets :
              /\ t.sockets[b].session = co.sockets[b].session
              /\ ActiveSocket(t.sockets[b]) => ActiveSocket(co.sockets[b])
              /\ InRoom(t.sockets[b]) <=> InRoom(co.sockets[b])
    PROVE  OneSocket(t) /\ SlotsTrue(t)
BY DEF CoInv, CoSound, OneSocket, SlotsTrue

LEMMA ListsStay ==
    ASSUME CoInv, NEW t, DOMAIN t.sockets = DOMAIN co.sockets, t.room = co.room, ~co.torn,
           \A b \in DOMAIN co.sockets : InRoom(t.sockets[b]) /\ t.sockets[b].open =>
              /\ InRoom(co.sockets[b]) /\ co.sockets[b].open
              /\ \A k \in Sessions :
                    /\ Owed(co, b, k) => Owed(t, b, k)
                    /\ k \in co.sockets[b].undone => k \in t.sockets[b].undone
                    /\ Reads(t.sockets[b], k) <=> Reads(co.sockets[b], k)
    PROVE  ListsTrue(t)
BY DEF CoInv, CoSound, ListsTrue

(* A socket that waits or is over has nothing to tell.                     *)
LEMMA OwedStays ==
    ASSUME NEW s, NEW t, DOMAIN t.sockets = DOMAIN s.sockets,
           \A d \in DOMAIN s.sockets : s.sockets[d].step \in {"greeting", "broadcast", "telling"}
                                         /\ s.sockets[d].tell.type \in {"joined", "left", "snapshot"} =>
              /\ t.sockets[d].step = s.sockets[d].step /\ t.sockets[d].tell = s.sockets[d].tell
              /\ t.sockets[d].to = s.sockets[d].to /\ t.sockets[d].session = s.sockets[d].session
    PROVE  \A b, k : Owed(s, b, k) => Owed(t, b, k)
BY DEF Owed, Telltale

LEMMA CloseSound ==
    ASSUME CoInv, NEW c \in DOMAIN co.sockets, CloseSocket(c)
    PROVE  CoInv'
<1> DEFINE x == co.sockets[c]
           y == [x EXCEPT !.open = FALSE, !.shown = OnList({}), !.inbox = <<>>, !.undone = {}]
           t == [co EXCEPT !.sockets = [co.sockets EXCEPT ![c] = y]]
<1>1. co' = t
  BY DEF CloseSocket, CoInv, CoSound, CoShape
<1>2. /\ y.session = x.session /\ y.open = FALSE /\ y.step = x.step /\ y.tell = x.tell /\ y.to = x.to
      /\ IsSocket(x) /\ IsSocket(y)
  <2>1. IsSocket(x)
    BY DEF CoInv, CoSound, CoShape
  <2>2. OnList({}) \in [Sessions -> {0, 1}] /\ <<>> \in Seq(CoMessages)
    BY DEF OnList
  <2> HIDE DEF x
  <2>3. QED
    BY <2>1, <2>2 DEF IsSocket
<1> HIDE DEF y
<1>3. /\ CoShape(t) /\ DOMAIN t.sockets = DOMAIN co.sockets /\ t.room = co.room /\ t.torn = co.torn
      /\ t.sockets[c] = y /\ \A b \in DOMAIN co.sockets \ {c} : t.sockets[b] = co.sockets[b]
  <2>1. Changes(co, t, c, y) /\ t.room = co.room /\ t.torn = co.torn
    BY SocketShape DEF Changes, CoShape
  <2> HIDE DEF t
  <2>2. QED
    BY <1>2, <2>1, SocketShape, OneChanges
<1> HIDE DEF t
<1>4. \A b \in DOMAIN co.sockets :
         /\ t.sockets[b].session = co.sockets[b].session /\ t.sockets[b].step = co.sockets[b].step
         /\ t.sockets[b].tell = co.sockets[b].tell /\ t.sockets[b].to = co.sockets[b].to
         /\ t.sockets[b].open => b # c /\ co.sockets[b].open
  BY <1>2, <1>3
<1>5. \A b \in DOMAIN co.sockets :
         /\ ActiveSocket(t.sockets[b]) <=> ActiveSocket(co.sockets[b])
         /\ Leaves(t.sockets[b]) <=> Leaves(co.sockets[b])
         /\ InRoom(t.sockets[b]) <=> InRoom(co.sockets[b])
  BY <1>4 DEF ActiveSocket, Leaves, InRoom
<1>6. ASSUME ~co.torn PROVE OneSocket(t) /\ SlotsTrue(t) /\ LeaversGone(t) /\ ListsTrue(t)
  <2>1. OneSocket(t) /\ SlotsTrue(t)
    BY <1>3, <1>4, <1>5, <1>6, RoomStays
  <2>2. LeaversGone(t)
    BY <1>3, <1>4, <1>5, <1>6 DEF LeaversGone, CoInv, CoSound
  <2>3. \A b, k : Owed(co, b, k) => Owed(t, b, k)
    BY <1>3, <1>4, OwedStays
  <2>4. ListsTrue(t)
    BY <1>3, <1>4, <1>5, <1>6, <2>3, ListsStay
  <2>5. QED
    BY <2>1, <2>2, <2>4
<1>7. QED
  BY <1>1, <1>3, <1>6 DEF CoInv, CoSound

(* A client reads what was sent to it: its list becomes what it was to be. *)
LEMMA ReceiveSound ==
    ASSUME CoInv, NEW c \in DOMAIN co.sockets, Receive(c)
    PROVE  CoInv'
<1> DEFINE x == co.sockets[c]
           m == Head(x.inbox)
           now == CASE m.type = "snapshot" -> OnList(m.users)
                    [] m.type = "joined" -> ListedOnce(x.shown, m.user)
                    [] m.type = "left" -> GoneFrom(x.shown, m.user)
                    [] m.type = "event" -> x.shown
           y == [x EXCEPT !.inbox = Tail(@), !.shown = now]
           t == [co EXCEPT !.sockets = [co.sockets EXCEPT ![c] = y]]
<1>1. IsSocket(x)
  BY SocketShape
<1>2. x.open /\ x.inbox # <<>> /\ x.inbox \in Seq(CoMessages) /\ x.shown \in [Sessions -> {0, 1}]
  BY <1>1 DEF Receive, IsSocket
<1>3. co' = t
  <2>1. co' = [co EXCEPT !.sockets[c].inbox = Tail(@), !.sockets[c].shown = now]
    BY DEF Receive
  <2> HIDE DEF now, m
  <2>2. QED
    BY <1>1, <2>1, SocketShape DEF CoShape, IsSocket
<1> HIDE DEF x
<1>4. m \in CoMessages /\ Tail(x.inbox) \in Seq(CoMessages)
  BY <1>2, HeadTailProperties
<1> HIDE DEF m
<1>5. \/ m.type = "snapshot" /\ m.users \subseteq Sessions
      \/ m.type \in {"joined", "left"} /\ m.user \in Sessions
      \/ m.type = "event"
  BY <1>4 DEF CoMessages
<1>6. now \in [Sessions -> {0, 1}]
      /\ \A k \in Sessions : now[k] = 1 <=> IF Of(m, k) THEN Says(m, k) ELSE x.shown[k] = 1
  <2>1. CASE m.type = "snapshot" /\ m.users \subseteq Sessions
    BY <2>1 DEF OnList, Of, Says
  <2>2. CASE m.type = "joined" /\ m.user \in Sessions
    BY <1>2, <2>2 DEF ListedOnce, Of, Says
  <2>3. CASE m.type = "left" /\ m.user \in Sessions
    BY <1>2, <2>3 DEF GoneFrom, Of, Says
  <2>4. CASE m.type = "event"
    BY <1>2, <2>4 DEF Of, Says
  <2>5. QED
    BY <1>5, <2>1, <2>2, <2>3, <2>4
<1> HIDE DEF now
<1>7. /\ y.session = x.session /\ y.open = x.open /\ y.step = x.step /\ y.tell = x.tell /\ y.to = x.to
      /\ y.inbox = Tail(x.inbox) /\ y.shown = now /\ y.undone = x.undone /\ IsSocket(y)
  BY <1>1, <1>4, <1>6 DEF IsSocket
<1> HIDE DEF y
<1>8. /\ CoShape(t) /\ DOMAIN t.sockets = DOMAIN co.sockets /\ t.room = co.room /\ t.torn = co.torn
      /\ t.sockets[c] = y /\ \A b \in DOMAIN co.sockets \ {c} : t.sockets[b] = co.sockets[b]
  <2>1. Changes(co, t, c, y) /\ t.room = co.room /\ t.torn = co.torn
    BY SocketShape DEF Changes, CoShape
  <2> HIDE DEF t
  <2>2. QED
    BY <1>7, <2>1, SocketShape, OneChanges
<1> HIDE DEF t
<1>9. \A b \in DOMAIN co.sockets :
         /\ t.sockets[b].session = co.sockets[b].session /\ t.sockets[b].step = co.sockets[b].step
         /\ t.sockets[b].tell = co.sockets[b].tell /\ t.sockets[b].to = co.sockets[b].to
         /\ t.sockets[b].open = co.sockets[b].open /\ t.sockets[b].undone = co.sockets[b].undone
  BY <1>7, <1>8 DEF x
<1>10. \A b \in DOMAIN co.sockets :
         /\ ActiveSocket(t.sockets[b]) <=> ActiveSocket(co.sockets[b])
         /\ Leaves(t.sockets[b]) <=> Leaves(co.sockets[b])
         /\ InRoom(t.sockets[b]) <=> InRoom(co.sockets[b])
  BY <1>9 DEF ActiveSocket, Leaves, InRoom
<1>11. \A b \in DOMAIN co.sockets, k \in Sessions : Reads(t.sockets[b], k) <=> Reads(co.sockets[b], k)
  <2>1. ASSUME NEW k \in Sessions PROVE Reads(y, k) <=> Reads(x, k)
    <3>1. CASE x.step = "greeting"
      <4>1. x.tell \in CoMessages /\ Of(x.tell, k)
        BY <1>1, <3>1 DEF IsSocket, Of, x
      <4>2. WillList(Append(Tail(x.inbox), x.tell), now, k) <=> Says(x.tell, k)
        BY <1>4, <4>1, ToldLast
      <4>3. WillList(Append(x.inbox, x.tell), x.shown, k) <=> Says(x.tell, k)
        BY <1>2, <4>1, ToldLast
      <4>4. QED
        BY <1>7, <3>1, <4>2, <4>3 DEF Reads, Inbox
    <3>2. CASE x.step # "greeting"
      <4>1. WillList(Tail(x.inbox), now, k) <=> WillList(x.inbox, x.shown, k)
        BY <1>2, <1>6, ReadFirst DEF m
      <4>2. QED
        BY <1>7, <3>2, <4>1 DEF Reads, Inbox
    <3>3. QED
      BY <3>1, <3>2
  <2>2. QED
    BY <1>8, <2>1 DEF x
<1>12. ASSUME ~co.torn PROVE OneSocket(t) /\ SlotsTrue(t) /\ LeaversGone(t) /\ ListsTrue(t)
  <2>1. OneSocket(t) /\ SlotsTrue(t)
    BY <1>8, <1>9, <1>10, <1>12, RoomStays
  <2>2. LeaversGone(t)
    BY <1>8, <1>9, <1>10, <1>12 DEF LeaversGone, CoInv, CoSound
  <2>3. \A b, k : Owed(co, b, k) => Owed(t, b, k)
    BY <1>8, <1>9, OwedStays
  <2>4. ListsTrue(t)
    BY <1>8, <1>9, <1>10, <1>11, <1>12, <2>3, ListsStay
  <2>5. QED
    BY <2>1, <2>2, <2>4
<1>13. QED
  BY <1>3, <1>8, <1>12 DEF CoInv, CoSound

(* A handler whose socket alone changes, with nothing told before or after: *)
(* refused, told to speak, or hearing that its client is gone.             *)
LEMMA QuietSound ==
    ASSUME CoInv, NEW c \in DOMAIN co.sockets, NEW y, NEW t,
           Changes(co, t, c, y), t.room = co.room, t.torn = co.torn,
           y \in [session : {co.sockets[c].session}, open : BOOLEAN, step : CoSteps, inbox : {co.sockets[c].inbox},
                  shown : {co.sockets[c].shown}, tell : {y.tell}, to : {y.to}, undone : {co.sockets[c].undone}],
           co.sockets[c].step \notin {"greeting", "broadcast", "telling"},
           y.step \notin {"greeting", "telling"}, y.step = "broadcast" => y.tell = [type |-> "event"],
           y.open => co.sockets[c].open, y.step \in {"leaving", "over"} => ~y.open,
           ActiveSocket(y) <=> ActiveSocket(co.sockets[c])
    PROVE  CoSound(t)
<1> DEFINE x == co.sockets[c]
<1>1. IsSocket(x)
  BY SocketShape
<1>2. /\ y.session = x.session /\ y.inbox = x.inbox /\ y.shown = x.shown /\ y.undone = x.undone
      /\ Inbox(y) = x.inbox /\ Inbox(x) = x.inbox
      /\ ~Leaves(y) /\ ~Leaves(x)
  BY DEF Leaves, Inbox
<1>3. IsSocket(y)
  BY <1>1 DEF IsSocket, CoMessages
<1>4. /\ CoShape(t) /\ DOMAIN t.sockets = DOMAIN co.sockets
      /\ t.sockets[c] = y /\ \A b \in DOMAIN co.sockets \ {c} : t.sockets[b] = co.sockets[b]
  BY <1>3, SocketShape, OneChanges
<1>5. \A b \in DOMAIN co.sockets :
         /\ t.sockets[b].session = co.sockets[b].session
         /\ Inbox(t.sockets[b]) = Inbox(co.sockets[b]) /\ t.sockets[b].shown = co.sockets[b].shown
         /\ t.sockets[b].undone = co.sockets[b].undone
         /\ t.sockets[b].open => co.sockets[b].open
         /\ ActiveSocket(t.sockets[b]) <=> ActiveSocket(co.sockets[b])
         /\ InRoom(t.sockets[b]) <=> InRoom(co.sockets[b])
  BY <1>2, <1>4 DEF InRoom
<1>6. ASSUME ~co.torn PROVE OneSocket(t) /\ SlotsTrue(t) /\ LeaversGone(t) /\ ListsTrue(t)
  <2>1. OneSocket(t) /\ SlotsTrue(t)
    BY <1>4, <1>5, <1>6, RoomStays
  <2>2. LeaversGone(t)
    BY <1>2, <1>4, <1>6 DEF LeaversGone, CoInv, CoSound
  <2>3. \A b, k : Owed(co, b, k) => Owed(t, b, k)
    BY <1>4, OwedStays
  <2>4. ListsTrue(t)
    BY <1>4, <1>5, <1>6, <2>3, ListsStay DEF Reads
  <2>5. QED
    BY <2>1, <2>2, <2>4
<1>7. QED
  BY <1>4, <1>6 DEF CoSound

LEMMA SpeechSound ==
    ASSUME CoInv, NEW c \in DOMAIN co.sockets, Refuse(c) \/ Say(c) \/ Disconnected(c)
    PROVE  CoInv'
<1> DEFINE x == co.sockets[c]
<1>1. IsSocket(x)
  BY SocketShape
<1>2. CASE Refuse(c)
  <2> DEFINE y == [x EXCEPT !.open = FALSE, !.step = "over"]
  <2>1. Changes(co, co', c, y) /\ co'.room = co.room /\ co'.torn = co.torn
    BY <1>2, SocketShape DEF Refuse, Changes, CoShape
  <2>2. /\ x.step = "asked" /\ y.open = FALSE /\ y.step = "over"
        /\ y \in [session : {x.session}, open : BOOLEAN, step : CoSteps, inbox : {x.inbox},
                  shown : {x.shown}, tell : {y.tell}, to : {y.to}, undone : {x.undone}]
    BY <1>1, <1>2 DEF Refuse, IsSocket, CoSteps
  <2> HIDE DEF y
  <2>3. CoSound(co')
    BY <2>1, <2>2, QuietSound DEF ActiveSocket
  <2>4. QED
    BY <2>3 DEF CoInv
<1>3. CASE Say(c)
  <2> DEFINE y == [x EXCEPT !.step = "broadcast", !.tell = [type |-> "event"]]
  <2>1. Changes(co, co', c, y) /\ co'.room = co.room /\ co'.torn = co.torn
    BY <1>3, SocketShape DEF Say, Changes, CoShape
  <2>2. /\ x.step = "receiving" /\ y.open = x.open /\ y.step = "broadcast" /\ y.tell = [type |-> "event"]
        /\ y \in [session : {x.session}, open : BOOLEAN, step : CoSteps, inbox : {x.inbox},
                  shown : {x.shown}, tell : {y.tell}, to : {y.to}, undone : {x.undone}]
    BY <1>1, <1>3 DEF Say, IsSocket, CoSteps
  <2> HIDE DEF y
  <2>3. CoSound(co')
    BY <2>1, <2>2, QuietSound DEF ActiveSocket
  <2>4. QED
    BY <2>3 DEF CoInv
<1>4. CASE Disconnected(c)
  <2> DEFINE y == [x EXCEPT !.step = "leaving"]
  <2>1. Changes(co, co', c, y) /\ co'.room = co.room /\ co'.torn = co.torn
    BY <1>4, SocketShape DEF Disconnected, Changes, CoShape
  <2>2. /\ x.step = "receiving" /\ y.open = x.open /\ ~x.open /\ y.step = "leaving"
        /\ y \in [session : {x.session}, open : BOOLEAN, step : CoSteps, inbox : {x.inbox},
                  shown : {x.shown}, tell : {y.tell}, to : {y.to}, undone : {x.undone}]
    BY <1>1, <1>4 DEF Disconnected, IsSocket, CoSteps
  <2> HIDE DEF y
  <2>3. CoSound(co')
    BY <2>1, <2>2, QuietSound DEF ActiveSocket
  <2>4. QED
    BY <2>3 DEF CoInv
<1>5. QED
  BY <1>2, <1>3, <1>4


(* A new window's socket asks to join, and is not in the room yet.         *)
LEMMA ConnectSound ==
    ASSUME CoInv, Connect
    PROVE  CoInv'
<1> DEFINE n == Len(co.sockets)
<1> PICK session \in Sessions :
       co' = [co EXCEPT !.ops = @ - 1,
                        !.sockets = Append(@, [session |-> session, open |-> TRUE, step |-> "asked", inbox |-> <<>>,
                                               shown |-> OnList({}), tell |-> Null, to |-> {}, undone |-> {}])]
  BY DEF Connect
<1> DEFINE y == [session |-> session, open |-> TRUE, step |-> "asked", inbox |-> <<>>,
                 shown |-> OnList({}), tell |-> Null, to |-> {}, undone |-> {}]
           r == Append(co.sockets, y)
<1>1. n \in Nat /\ DOMAIN co.sockets = 1..n
  BY SocketShape, LenProperties DEF CoShape
<1>2. /\ y.step = "asked" /\ ~ActiveSocket(y) /\ ~InRoom(y) /\ ~Leaves(y) /\ IsSocket(y)
  BY DEF IsSocket, ActiveSocket, InRoom, Leaves, OnList, CoSteps
<1>3. /\ co'.sockets = r /\ co'.room = co.room /\ co'.torn = co.torn
      /\ co' \in [sockets : {co'.sockets}, room : {co'.room}, ops : {co'.ops}, torn : BOOLEAN]
  BY SocketShape DEF CoShape
<1> HIDE DEF y
<1>4. co.sockets \in Seq(Range(co.sockets) \cup {y})
  <2>1. co.sockets \in Seq(Range(co.sockets))
    BY SocketShape DEF CoShape
  <2>2. QED
    BY <2>1, SeqMonotonic
<1>5. /\ Len(r) = n + 1 /\ r[n + 1] = y /\ \A b \in 1..n : r[b] = co.sockets[b]
      /\ r \in Seq(Range(co.sockets) \cup {y}) /\ DOMAIN r = 1..(n + 1)
  <2>1. r \in Seq(Range(co.sockets) \cup {y}) /\ Len(r) = n + 1
    BY <1>4, AppendProperties
  <2>2. r[n + 1] = y /\ \A b \in 1..n : r[b] = co.sockets[b]
    BY <1>4, AppendProperties
  <2>3. DOMAIN r = 1..(n + 1)
    BY <2>1, LenProperties
  <2>4. QED
    BY <2>1, <2>2, <2>3
<1> HIDE DEF n, r
<1>6. r \in Seq(Range(r))
  <2>1. r \in [1..(n + 1) -> Range(r)]
    <3>1. r = [b \in 1..(n + 1) |-> r[b]]
      BY <1>1, <1>5, SeqDef
    <3>2. QED
      BY <1>5, <3>1 DEF Range
  <2>2. QED
    BY <1>1, <2>1, SeqDef
<1>7. \A b \in 1..(n + 1) : b = n + 1 \/ b \in 1..n
  BY <1>1
<1>8. CoShape(co')
  <2>1. \A b \in DOMAIN r : IsSocket(r[b])
    BY <1>1, <1>2, <1>5, <1>7, SocketShape
  <2>2. QED
    BY <1>3, <1>6, <2>1, SocketShape DEF CoShape
<1>9. ASSUME NEW b \in DOMAIN co'.sockets
      PROVE  (b \in DOMAIN co.sockets /\ co'.sockets[b] = co.sockets[b]) \/ co'.sockets[b] = y
  BY <1>1, <1>3, <1>5, <1>7
<1>10. \A b \in DOMAIN co.sockets : b \in DOMAIN co'.sockets /\ co'.sockets[b] = co.sockets[b]
  BY <1>1, <1>3, <1>5
<1> HIDE DEF r
<1>11. ASSUME ~co.torn PROVE OneSocket(co') /\ SlotsTrue(co') /\ LeaversGone(co') /\ ListsTrue(co')
  <2>1. OneSocket(co) /\ SlotsTrue(co) /\ LeaversGone(co) /\ ListsTrue(co)
    BY <1>11 DEF CoInv, CoSound
  <2>2. \A b \in DOMAIN co'.sockets : ActiveSocket(co'.sockets[b]) \/ InRoom(co'.sockets[b]) =>
           b \in DOMAIN co.sockets /\ co'.sockets[b] = co.sockets[b]
    BY <1>2, <1>9
  <2>3. OneSocket(co')
    <3>1. ASSUME NEW b \in DOMAIN co'.sockets, NEW d \in DOMAIN co'.sockets,
                 co'.sockets[b].session = co'.sockets[d].session,
                 ActiveSocket(co'.sockets[b]), ActiveSocket(co'.sockets[d])
          PROVE  b = d
      <4>1. /\ b \in DOMAIN co.sockets /\ co'.sockets[b] = co.sockets[b]
            /\ d \in DOMAIN co.sockets /\ co'.sockets[d] = co.sockets[d]
        BY <2>2, <3>1
      <4>2. QED
        BY <2>1, <3>1, <4>1 DEF OneSocket
    <3>2. QED
      BY <3>1 DEF OneSocket
  <2>4. SlotsTrue(co')
    <3>1. ASSUME NEW b \in DOMAIN co'.sockets, InRoom(co'.sockets[b])
          PROVE  co'.sockets[b].session \in DOMAIN co.room /\ co.room[co'.sockets[b].session] = b
      <4>1. b \in DOMAIN co.sockets /\ co'.sockets[b] = co.sockets[b]
        BY <2>2, <3>1
      <4>2. QED
        BY <2>1, <3>1, <4>1 DEF SlotsTrue
    <3>2. ASSUME NEW k \in DOMAIN co.room
          PROVE  \E b \in DOMAIN co'.sockets : co'.sockets[b].session = k /\ InRoom(co'.sockets[b])
      <4> PICK b \in DOMAIN co.sockets : co.sockets[b].session = k /\ InRoom(co.sockets[b])
        BY <2>1 DEF SlotsTrue
      <4>1. QED
        BY <1>10
    <3>3. QED
      BY <1>3, <3>1, <3>2 DEF SlotsTrue
  <2>5. LeaversGone(co')
    BY <1>2, <1>9, <2>1 DEF LeaversGone
  <2>6. \A b, k : Owed(co, b, k) => Owed(co', b, k)
    BY <1>10 DEF Owed, Telltale
  <2>7. ListsTrue(co')
    BY <1>2, <1>3, <1>9, <2>1, <2>6 DEF ListsTrue
  <2>8. QED
    BY <2>3, <2>4, <2>5, <2>7
<1>12. QED
  BY <1>3, <1>8, <1>11 DEF CoInv, CoSound

(* Who joins reads who is there and is to tell the others.                 *)
LEMMA JoinSound ==
    ASSUME CoInv, NEW c \in DOMAIN co.sockets, Join(c)
    PROVE  CoInv'
<1> DEFINE x == co.sockets[c]
           s == x.session
           room == [k \in DOMAIN co.room \cup {s} |-> IF k = s THEN c ELSE co.room[k]]
           torn == co.torn \/ \E b \in Sockets \ {c} : co.sockets[b].session = s
                                                       /\ co.sockets[b].step \notin {"asked", "over"}
           m == [type |-> "snapshot", users |-> DOMAIN room]
           in == [co EXCEPT !.room = room, !.torn = torn]
<1>1. IsSocket(x) /\ x.step = "asked" /\ s \in Sessions
  BY SocketShape DEF Join, IsSocket
<1>2. room = [k \in DOMAIN room |-> room[k]] /\ DOMAIN room = DOMAIN co.room \cup {s} /\ DOMAIN room \subseteq Sessions
  BY <1>1, SocketShape
<1>3. /\ room[s] = c /\ \A k \in DOMAIN co.room \ {s} : room[k] = co.room[k]
      /\ m \in CoMessages /\ m.type = "snapshot" /\ m.users = DOMAIN room
  BY <1>2 DEF CoMessages
<1>4. torn \in BOOLEAN
  BY SocketShape
<1>5. /\ in \in [sockets : {in.sockets}, room : {in.room}, ops : {in.ops}, torn : BOOLEAN]
      /\ in.sockets = co.sockets /\ in.room = room /\ in.torn = torn
  BY <1>4, SocketShape DEF CoShape
<1>6. co' = [in EXCEPT !.sockets[c].step = "greeting", !.sockets[c].tell = m]
  BY DEF Join
<1> HIDE DEF in, m, room, torn
<1>7. QED
  <2> DEFINE y == [x EXCEPT !.step = "greeting", !.tell = m]
  <2>1. Changes(co, co', c, y) /\ co'.room = room /\ co'.torn = torn
    <3>1. co'.sockets = [co.sockets EXCEPT ![c] = y]
      BY <1>1, <1>5, <1>6 DEF IsSocket
    <3>2. co' \in [sockets : {co'.sockets}, room : {co'.room}, ops : {co'.ops}, torn : BOOLEAN]
          /\ co'.room = room /\ co'.torn = torn
      BY <1>4, <1>5, <1>6
    <3>3. QED
      BY <1>2, <3>1, <3>2 DEF Changes
  <2>2. /\ y.session = s /\ y.open = x.open /\ y.step = "greeting" /\ y.tell = m
        /\ y.inbox = x.inbox /\ y.shown = x.shown /\ x.inbox \in Seq(CoMessages)
    BY <1>1 DEF IsSocket
  <2>3. IsSocket(y)
    BY <1>1, <1>3 DEF IsSocket, CoSteps
  <2> HIDE DEF y
  <2>4. /\ CoShape(co') /\ DOMAIN co'.sockets = DOMAIN co.sockets
        /\ co'.sockets[c] = y /\ \A b \in DOMAIN co.sockets \ {c} : co'.sockets[b] = co.sockets[b]
    BY <2>1, <2>3, SocketShape, OneChanges
  <2>5. ASSUME ~torn PROVE OneSocket(co') /\ SlotsTrue(co') /\ LeaversGone(co') /\ ListsTrue(co')
    <3>1. OneSocket(co) /\ SlotsTrue(co) /\ LeaversGone(co) /\ ListsTrue(co)
      BY <2>5 DEF CoInv, CoSound, torn
    <3>2. \A b \in DOMAIN co.sockets \ {c} : co.sockets[b].session = s => ~ActiveSocket(co.sockets[b])
      BY <2>5 DEF torn, Sockets, ActiveSocket
    <3>3. ActiveSocket(y) /\ ~Leaves(y) /\ InRoom(y) /\ ~ActiveSocket(x) /\ ~InRoom(x)
      BY <1>1, <2>2 DEF ActiveSocket, Leaves, InRoom
    <3>4. s \notin DOMAIN co.room
      BY <3>1, <3>2, <3>3 DEF SlotsTrue, InRoom
    <3>5. OneSocket(co')
      BY <2>2, <2>4, <3>1, <3>2 DEF OneSocket
    <3>6. SlotsTrue(co')
      <4>1. ASSUME NEW b \in DOMAIN co.sockets, InRoom(co'.sockets[b])
            PROVE  co'.sockets[b].session \in DOMAIN room /\ room[co'.sockets[b].session] = b
        <5>1. CASE b = c
          BY <1>2, <1>3, <2>2, <2>4, <5>1
        <5>2. CASE b # c
          <6>1. co.sockets[b].session # s /\ InRoom(co.sockets[b])
            BY <2>4, <3>2, <4>1, <5>2 DEF InRoom
          <6>2. QED
            BY <1>2, <1>3, <2>4, <3>1, <5>2, <6>1 DEF SlotsTrue
        <5>3. QED
          BY <5>1, <5>2
      <4>2. ASSUME NEW k \in DOMAIN room
            PROVE  \E b \in DOMAIN co.sockets : co'.sockets[b].session = k /\ InRoom(co'.sockets[b])
        <5>1. CASE k = s
          BY <2>2, <2>4, <3>3, <5>1
        <5>2. CASE k # s
          <6> PICK b \in DOMAIN co.sockets : co.sockets[b].session = k /\ InRoom(co.sockets[b])
            BY <1>2, <3>1, <5>2 DEF SlotsTrue
          <6>1. QED
            BY <2>4, <5>2
        <5>3. QED
          BY <5>1, <5>2
      <4>3. QED
        BY <2>1, <2>4, <4>1, <4>2 DEF SlotsTrue
    <3>7. LeaversGone(co')
      BY <2>2, <2>4, <3>1, <3>3 DEF LeaversGone
    <3>8. \A b, k : Owed(co, b, k) => Owed(co', b, k)
      BY <1>1, <2>4, OwedStays
    <3>9. ASSUME NEW b \in DOMAIN co.sockets, InRoom(co'.sockets[b]), co'.sockets[b].open, NEW k \in Sessions
          PROVE  \/ Owed(co', b, k)
                 \/ k \in co'.sockets[b].undone
                 \/ Reads(co'.sockets[b], k) <=> k \in DOMAIN room
      <4>1. CASE b = c
        <5>1. Of(m, k) /\ (Says(m, k) <=> k \in DOMAIN room)
          BY <1>3 DEF Of, Says
        <5>2. WillList(Append(x.inbox, m), x.shown, k) <=> Says(m, k)
          BY <1>3, <2>2, <5>1, ToldLast
        <5>3. QED
          BY <2>2, <2>4, <4>1, <5>1, <5>2 DEF Reads, Inbox
      <4>2. CASE b # c /\ k = s
        BY <1>3, <2>2, <2>4, <4>2 DEF Owed, Telltale
      <4>3. CASE b # c /\ k # s
        <5>1. Owed(co, b, k) \/ k \in co.sockets[b].undone \/ (Reads(co.sockets[b], k) <=> k \in DOMAIN co.room)
          BY <2>4, <3>1, <3>9, <4>3 DEF ListsTrue
        <5>2. QED
          BY <1>2, <2>4, <3>8, <4>3, <5>1
      <4>4. QED
        BY <4>1, <4>2, <4>3
    <3>10. ListsTrue(co')
      BY <2>1, <2>4, <3>9 DEF ListsTrue
    <3>11. QED
      BY <3>5, <3>6, <3>7, <3>10
  <2>6. QED
    BY <2>1, <2>4, <2>5 DEF CoInv, CoSound

(* The snapshot comes last in the inbox, as it was to; now the others are  *)
(* to be told.                                                             *)
LEMMA GreetSound ==
    ASSUME CoInv, NEW c \in DOMAIN co.sockets, Greet(c)
    PROVE  CoInv'
<1> DEFINE x == co.sockets[c]
           s == x.session
           m == x.tell
           j == [type |-> "joined", user |-> s]
<1>1. IsSocket(x) /\ x.step = "greeting" /\ CoShape(co) /\ s \in Sessions
  BY SocketShape DEF Greet, IsSocket
<1>2. m \in CoMessages /\ m.type = "snapshot" /\ x.inbox \in Seq(CoMessages)
  BY <1>1 DEF IsSocket
<1>3. j \in CoMessages /\ j.type = "joined" /\ j.user = s
  BY <1>1 DEF CoMessages
<1>4. CASE ~x.open
  <2> DEFINE y == [x EXCEPT !.step = "over", !.tell = Null]
  <2>1. co' = [co EXCEPT !.sockets[c].step = "over", !.sockets[c].tell = Null, !.torn = TRUE]
    BY <1>4 DEF Greet
  <2>2. Changes(co, co', c, y) /\ co'.torn = TRUE
    <3>1. co'.sockets = [co.sockets EXCEPT ![c] = y]
      BY <1>1, <2>1 DEF CoShape, IsSocket
    <3>2. co' \in [sockets : {co'.sockets}, room : {co.room}, ops : {co.ops}, torn : {TRUE}]
      BY <1>1, <2>1 DEF CoShape
    <3>3. QED
      BY <3>1, <3>2, SocketShape DEF Changes
  <2>3. IsSocket(y)
    BY <1>1 DEF IsSocket, CoSteps
  <2> HIDE DEF y
  <2>4. CoShape(co')
    BY <2>2, <2>3, SocketShape, OneChanges
  <2>5. QED
    BY <2>2, <2>4 DEF CoInv, CoSound
<1>5. CASE x.open
  <2> DEFINE z == [x EXCEPT !.inbox = Append(@, m), !.undone = Undone(m, x)]
             told == Delivered(co, c, m)
             y == [x EXCEPT !.inbox = Append(@, m), !.step = "broadcast", !.tell = j]
  <2>1. co' = [told EXCEPT !.sockets[c].step = "broadcast", !.sockets[c].tell = j]
    BY <1>5 DEF Greet
  <2>2. told.sockets = [co.sockets EXCEPT ![c] = z]
        /\ told \in [sockets : {told.sockets}, room : {co.room}, ops : {co.ops}, torn : {co.torn}]
    <3>1. told = [co EXCEPT !.sockets[c] = z]
      BY <1>5 DEF Delivered
    <3> HIDE DEF z, told
    <3>2. QED
      BY <1>1, <3>1 DEF CoShape
  <2>3. Undone(m, x) = x.undone
    BY <1>2 DEF Undone
  <2>4. [[z EXCEPT !.step = "broadcast"] EXCEPT !.tell = j] = y
    <3>1. z = [x EXCEPT !.inbox = Append(@, m)]
      BY <1>1, <2>3 DEF IsSocket
    <3> HIDE DEF z, m, j
    <3>2. QED
      BY <1>1, <3>1 DEF IsSocket
  <2>5. Changes(co, co', c, y) /\ co'.room = co.room /\ co'.torn = co.torn
    <3> HIDE DEF z, told, m, j
    <3>1. co'.sockets = [told.sockets EXCEPT ![c] = [[told.sockets[c] EXCEPT !.step = "broadcast"] EXCEPT !.tell = j]]
      BY <2>1, <2>2 DEF CoShape
    <3>2. told.sockets[c] = z
      BY <1>1, <2>2 DEF CoShape
    <3>3. co'.sockets = [co.sockets EXCEPT ![c] = y]
      BY <1>1, <2>2, <2>4, <3>1, <3>2 DEF CoShape
    <3>4. co' \in [sockets : {co'.sockets}, room : {co.room}, ops : {co.ops}, torn : {co.torn}]
      BY <2>1, <2>2
    <3>5. QED
      BY <3>3, <3>4, SocketShape DEF Changes
  <2>6. /\ y.session = s /\ y.open = x.open /\ y.step = "broadcast" /\ y.tell = j
        /\ y.inbox = Append(x.inbox, m) /\ y.shown = x.shown /\ y.undone = x.undone
    BY <1>1 DEF IsSocket
  <2>7. IsSocket(y)
    <3>1. Append(x.inbox, m) \in Seq(CoMessages)
      BY <1>2, AppendProperties
    <3> HIDE DEF m, j
    <3>2. QED
      BY <1>1, <1>3, <3>1 DEF IsSocket, CoSteps
  <2> HIDE DEF y
  <2>8. /\ CoShape(co') /\ DOMAIN co'.sockets = DOMAIN co.sockets
        /\ co'.sockets[c] = y /\ \A b \in DOMAIN co.sockets \ {c} : co'.sockets[b] = co.sockets[b]
    BY <2>5, <2>7, SocketShape, OneChanges
  <2>9. /\ ActiveSocket(y) /\ ActiveSocket(x) /\ InRoom(y) /\ InRoom(x) /\ ~Leaves(y)
        /\ \A k : Reads(y, k) <=> Reads(x, k)
    BY <1>1, <1>3, <2>6 DEF ActiveSocket, InRoom, Leaves, Reads, Inbox
  <2>10. \A b \in DOMAIN co.sockets :
           /\ co'.sockets[b].session = co.sockets[b].session /\ co'.sockets[b].open = co.sockets[b].open
           /\ co'.sockets[b].undone = co.sockets[b].undone
           /\ ActiveSocket(co'.sockets[b]) => ActiveSocket(co.sockets[b])
           /\ InRoom(co'.sockets[b]) <=> InRoom(co.sockets[b])
           /\ \A k : Reads(co'.sockets[b], k) <=> Reads(co.sockets[b], k)
    BY <2>6, <2>8, <2>9
  <2>11. ASSUME ~co.torn PROVE OneSocket(co') /\ SlotsTrue(co') /\ LeaversGone(co') /\ ListsTrue(co')
    <3>1. OneSocket(co') /\ SlotsTrue(co')
      BY <2>5, <2>8, <2>10, <2>11, RoomStays
    <3>2. LeaversGone(co')
      BY <2>6, <2>8, <2>9, <2>11 DEF LeaversGone, CoInv, CoSound
    <3>3. ASSUME NEW b, NEW k, Owed(co, b, k) PROVE Owed(co', b, k)
      <4> PICK d \in DOMAIN co.sockets : /\ co.sockets[d].session = k /\ Telltale(co, d, b)
                                         /\ co.sockets[d].tell.type \in {"joined", "left", "snapshot"}
        BY <3>3 DEF Owed
      <4>1. CASE d # c
        BY <2>8, <4>1 DEF Owed, Telltale
      <4>2. CASE d = c
        <5>1. b # c /\ k = s
          BY <1>1, <4>2 DEF Telltale
        <5>2. QED
          BY <1>3, <2>6, <2>8, <5>1 DEF Owed, Telltale
      <4>3. QED
        BY <4>1, <4>2
    <3>4. ListsTrue(co')
      BY <2>5, <2>8, <2>10, <2>11, <3>3, ListsStay
    <3>5. QED
      BY <3>1, <3>2, <3>4
  <2>12. QED
    BY <2>5, <2>8, <2>11 DEF CoInv, CoSound
<1>6. QED
  BY <1>4, <1>5


(* Telling goes on while somebody is left to be told.                      *)
Tells(s, u, c) ==
    /\ u.sockets = [s.sockets EXCEPT ![c] = [s.sockets[c] EXCEPT !.step = "telling"]]
    /\ u \in [sockets : {u.sockets}, room : {s.room}, ops : {s.ops}, torn : {s.torn}]

LEMMA TellsOn ==
    ASSUME NEW s, NEW t, NEW u, NEW c, NEW targets, CoShape(s), c \in DOMAIN s.sockets, c \in DOMAIN co.sockets,
           s.sockets[c].tell = co.sockets[c].tell, s.sockets[c].session = co.sockets[c].session,
           co.sockets[c].step \in {"broadcast", "telling"}, IsSocket(co.sockets[c]),
           Tells(s, u, c), t = Telling(u, c, targets)
    PROVE  /\ CoShape(t) /\ DOMAIN t.sockets = DOMAIN s.sockets /\ t.room = s.room /\ t.torn = s.torn
           /\ \A b \in DOMAIN s.sockets \ {c} : t.sockets[b] = s.sockets[b]
           /\ t.sockets[c].session = s.sockets[c].session /\ t.sockets[c].open = s.sockets[c].open
           /\ t.sockets[c].inbox = s.sockets[c].inbox /\ t.sockets[c].shown = s.sockets[c].shown
           /\ t.sockets[c].undone = s.sockets[c].undone
           /\ targets # {} => /\ t.sockets[c].step = "telling" /\ t.sockets[c].to = targets
                              /\ t.sockets[c].tell = s.sockets[c].tell
           /\ targets = {} => /\ t.sockets[c].step = (IF co.sockets[c].tell.type = "left" THEN "over" ELSE "receiving")
<1> DEFINE x == s.sockets[c]
           step == IF co.sockets[c].tell.type = "left" THEN "over" ELSE "receiving"
           y == IF targets # {} THEN [x EXCEPT !.step = "telling", !.to = targets]
                ELSE [x EXCEPT !.step = step, !.tell = Null, !.to = {}]
<1>1. IsSocket(x) /\ x.tell \in CoMessages /\ x.tell.type # "snapshot"
      /\ (x.tell.type \in {"joined", "left"} => x.tell.user = x.session)
  BY DEF CoShape, IsSocket
<1>2. step \in {"over", "receiving"}
  OBVIOUS
<1>3. t.sockets = [s.sockets EXCEPT ![c] = y] /\ t.room = s.room /\ t.torn = s.torn
      /\ t \in [sockets : {t.sockets}, room : {t.room}, ops : {t.ops}, torn : BOOLEAN]
  <2>1. u.sockets = [s.sockets EXCEPT ![c] = [x EXCEPT !.step = "telling"]]
        /\ u \in [sockets : {u.sockets}, room : {s.room}, ops : {s.ops}, torn : {s.torn}]
    BY DEF Tells
  <2>2. s.sockets = [b \in DOMAIN s.sockets |-> s.sockets[b]]
    <3>1. s.sockets \in Seq(Range(s.sockets))
      BY DEF CoShape
    <3>2. QED
      BY <3>1
  <2>3. CASE targets # {}
    <3>1. t = [u EXCEPT !.sockets[c].to = targets]
      BY <2>3 DEF Telling
    <3> DEFINE z == [x EXCEPT !.step = "telling"]
    <3>2. u.sockets = [s.sockets EXCEPT ![c] = z]
      BY <2>1
    <3> HIDE DEF z
    <3>3. t.sockets = [u.sockets EXCEPT ![c].to = targets]
      BY <2>1, <3>1
    <3>4. t.sockets = [s.sockets EXCEPT ![c] = [z EXCEPT !.to = targets]]
      BY <2>2, <3>3, <3>2
    <3>5. t.sockets = [s.sockets EXCEPT ![c] = [[x EXCEPT !.step = "telling"] EXCEPT !.to = targets]]
      BY <3>4 DEF z
    <3>6. QED
      BY <2>1, <2>3, <3>1, <3>5 DEF CoShape
  <2>4. CASE targets = {}
    <3>1. t = [u EXCEPT !.sockets[c] = [@ EXCEPT !.tell = Null, !.to = {}, !.step = step]]
      BY <2>4 DEF Telling
    <3> DEFINE z == [x EXCEPT !.step = "telling"]
    <3>2. u.sockets = [s.sockets EXCEPT ![c] = z]
      BY <2>1
    <3> HIDE DEF z, step
    <3>3. t.sockets = [u.sockets EXCEPT ![c] = [@ EXCEPT !.tell = Null, !.to = {}, !.step = step]]
      BY <2>1, <3>1
    <3>4. t.sockets = [s.sockets EXCEPT ![c] = [z EXCEPT !.tell = Null, !.to = {}, !.step = step]]
      BY <2>2, <3>3, <3>2
    <3>5. t.sockets = [s.sockets EXCEPT ![c] =
                         [[x EXCEPT !.step = "telling"] EXCEPT !.tell = Null, !.to = {}, !.step = step]]
      BY <3>4 DEF z
    <3>6. [[x EXCEPT !.step = "telling"] EXCEPT !.tell = Null, !.to = {}, !.step = step] = y
      BY <1>1, <2>4 DEF IsSocket
    <3>7. QED
      BY <2>1, <3>1, <3>5, <3>6 DEF CoShape
  <2>5. QED
    BY <2>3, <2>4
<1> HIDE DEF step
<1>4. /\ y.session = x.session /\ y.open = x.open /\ y.inbox = x.inbox /\ y.shown = x.shown /\ y.undone = x.undone
      /\ IsSocket(y)
      /\ targets # {} => y.step = "telling" /\ y.to = targets /\ y.tell = x.tell
      /\ targets = {} => y.step = step
  BY <1>1, <1>2 DEF IsSocket, CoSteps
<1> HIDE DEF y
<1>5. Changes(s, t, c, y)
  BY <1>3 DEF Changes, CoShape
<1>6. /\ CoShape(t) /\ DOMAIN t.sockets = DOMAIN s.sockets
      /\ t.sockets[c] = y /\ \A b \in DOMAIN s.sockets \ {c} : t.sockets[b] = s.sockets[b]
  BY <1>4, <1>5, OneChanges
<1>7. QED
  BY <1>3, <1>4, <1>6 DEF step

(* Whom a handler was to tell are those it now tells.                      *)
LEMMA BroadcastSound ==
    ASSUME CoInv, NEW c \in DOMAIN co.sockets, Broadcast(c)
    PROVE  CoInv'
<1> DEFINE x == co.sockets[c]
           others == {co.room[k] : k \in DOMAIN co.room \ {x.session}}
           targets == IF x.tell.type = "left" THEN Holders(co) ELSE others
           u == [co EXCEPT !.sockets[c].step = "telling"]
<1>1. IsSocket(x) /\ x.step = "broadcast" /\ CoShape(co)
  BY SocketShape DEF Broadcast
<1>2. co' = Telling(u, c, targets)
  BY DEF Broadcast
<1>3. x.tell \in CoMessages /\ x.tell.type # "snapshot"
      /\ (x.tell.type \in {"joined", "left"} => x.tell.user = x.session)
  BY <1>1 DEF IsSocket
<1> HIDE DEF targets
<1>4. /\ CoShape(co') /\ DOMAIN co'.sockets = DOMAIN co.sockets /\ co'.room = co.room /\ co'.torn = co.torn
      /\ \A b \in DOMAIN co.sockets \ {c} : co'.sockets[b] = co.sockets[b]
      /\ co'.sockets[c].session = x.session /\ co'.sockets[c].open = x.open
      /\ co'.sockets[c].inbox = x.inbox /\ co'.sockets[c].shown = x.shown /\ co'.sockets[c].undone = x.undone
      /\ targets # {} => co'.sockets[c].step = "telling" /\ co'.sockets[c].to = targets /\ co'.sockets[c].tell = x.tell
      /\ targets = {} => co'.sockets[c].step = (IF x.tell.type = "left" THEN "over" ELSE "receiving")
  <2>1. Tells(co, u, c)
    BY <1>1 DEF Tells, CoShape
  <2> HIDE DEF u
  <2>2. ASSUME NEW t, t = Telling(u, c, targets)
        PROVE  /\ CoShape(t) /\ DOMAIN t.sockets = DOMAIN co.sockets /\ t.room = co.room /\ t.torn = co.torn
               /\ \A b \in DOMAIN co.sockets \ {c} : t.sockets[b] = co.sockets[b]
               /\ t.sockets[c].session = x.session /\ t.sockets[c].open = x.open
               /\ t.sockets[c].inbox = x.inbox /\ t.sockets[c].shown = x.shown /\ t.sockets[c].undone = x.undone
               /\ targets # {} => t.sockets[c].step = "telling" /\ t.sockets[c].to = targets /\ t.sockets[c].tell = x.tell
               /\ targets = {} => t.sockets[c].step = (IF x.tell.type = "left" THEN "over" ELSE "receiving")
    BY <1>1, <2>1, <2>2, TellsOn
  <2>3. QED
    BY <1>2, <2>2
<1> DEFINE y == co'.sockets[c]
<1>5. /\ y.step \in {"telling", "over", "receiving"}
      /\ Leaves(x) <=> x.tell.type = "left"
      /\ Leaves(x) \/ y.step # "over"
      /\ ActiveSocket(y) => ActiveSocket(x)
      /\ Leaves(y) => Leaves(x)
      /\ InRoom(y) <=> InRoom(x)
      /\ \A k : Reads(y, k) <=> Reads(x, k)
  BY <1>1, <1>4 DEF Leaves, ActiveSocket, InRoom, Reads, Inbox
<1>6. \A b \in DOMAIN co.sockets :
         /\ co'.sockets[b].session = co.sockets[b].session /\ co'.sockets[b].open = co.sockets[b].open
         /\ co'.sockets[b].undone = co.sockets[b].undone
         /\ \A k : Reads(co'.sockets[b], k) <=> Reads(co.sockets[b], k)
         /\ ActiveSocket(co'.sockets[b]) => ActiveSocket(co.sockets[b])
         /\ InRoom(co'.sockets[b]) <=> InRoom(co.sockets[b])
  BY <1>4, <1>5
<1>7. ASSUME ~co.torn PROVE OneSocket(co') /\ SlotsTrue(co') /\ LeaversGone(co') /\ ListsTrue(co')
  <2>1. OneSocket(co) /\ SlotsTrue(co) /\ LeaversGone(co) /\ ListsTrue(co)
    BY <1>7 DEF CoInv, CoSound
  <2>2. OneSocket(co') /\ SlotsTrue(co')
    BY <1>4, <1>6, <1>7, RoomStays
  <2>3. LeaversGone(co')
    BY <1>4, <1>5, <2>1 DEF LeaversGone
  <2>4. ASSUME NEW b \in DOMAIN co.sockets, InRoom(co.sockets[b]), NEW k \in Sessions, Owed(co, b, k)
        PROVE  Owed(co', b, k)
    <3> PICK d \in DOMAIN co.sockets : /\ co.sockets[d].session = k /\ Telltale(co, d, b)
                                       /\ co.sockets[d].tell.type \in {"joined", "left", "snapshot"}
      BY <2>4 DEF Owed
    <3>1. CASE d # c
      BY <1>4, <3>1 DEF Owed, Telltale
    <3>2. CASE d = c
      <4>1. b # c
        BY <1>1, <3>2 DEF Telltale
      <4>2. co.sockets[b].session \in DOMAIN co.room /\ co.room[co.sockets[b].session] = b
        BY <2>1, <2>4 DEF SlotsTrue
      <4>3. b \in targets
        <5>1. CASE x.tell.type = "left"
          BY <4>2, <5>1 DEF targets, Holders
        <5>2. CASE x.tell.type # "left"
          <6>1. ActiveSocket(x) /\ ActiveSocket(co.sockets[b])
            BY <1>1, <2>4 DEF ActiveSocket, InRoom
          <6>2. co.sockets[b].session # x.session
            BY <2>1, <4>1, <6>1 DEF OneSocket
          <6>3. QED
            BY <4>2, <5>2, <6>2 DEF targets
        <5>3. QED
          BY <5>1, <5>2
      <4>4. /\ co'.sockets[c].step = "telling" /\ b \in co'.sockets[c].to
            /\ co'.sockets[c].tell.type \in {"joined", "left"} /\ co'.sockets[c].session = k
        BY <1>3, <1>4, <3>2, <4>3
      <4>5. QED
        BY <1>4, <4>4 DEF Owed, Telltale
    <3>3. QED
      BY <3>1, <3>2
  <2>5. ListsTrue(co')
    BY <1>4, <1>6, <1>7, <2>4, ListsStay
  <2>6. QED
    BY <2>2, <2>3, <2>5
<1>8. QED
  BY <1>4, <1>7 DEF CoInv, CoSound

(* A session that leaves gives up its slot and is to tell those who stay.  *)
LEMMA LeaveSound ==
    ASSUME CoInv, NEW c \in DOMAIN co.sockets, Leave(c)
    PROVE  CoInv'
<1> DEFINE x == co.sockets[c]
           s == x.session
           room == [k \in DOMAIN co.room \ {s} |-> co.room[k]]
<1>1. IsSocket(x) /\ x.step = "leaving" /\ s \in Sessions
  BY SocketShape DEF Leave, IsSocket
<1>2. ActiveSocket(x) /\ InRoom(x)
  BY <1>1 DEF ActiveSocket, InRoom, Leaves
<1>3. CASE s \notin DOMAIN co.room
  <2> DEFINE y == [x EXCEPT !.step = "over"]
  <2>1. co' = [co EXCEPT !.sockets[c].step = "over"]
    BY <1>3 DEF Leave
  <2>2. Changes(co, co', c, y) /\ co'.torn = co.torn
    BY <2>1, SocketShape DEF Changes, CoShape
  <2>3. IsSocket(y)
    BY <1>1 DEF IsSocket, CoSteps
  <2> HIDE DEF y
  <2>4. CoShape(co')
    BY <2>2, <2>3, SocketShape, OneChanges
  <2>5. co.torn
    BY <1>2, <1>3 DEF CoInv, CoSound, SlotsTrue
  <2>6. QED
    BY <2>2, <2>4, <2>5 DEF CoInv, CoSound
<1>4. CASE s \in DOMAIN co.room
  <2> DEFINE y == [x EXCEPT !.step = "broadcast", !.tell = [type |-> "left", user |-> s]]
  <2>1. room = [k \in DOMAIN room |-> room[k]] /\ DOMAIN room = DOMAIN co.room \ {s} /\ DOMAIN room \subseteq Sessions
    BY SocketShape
  <2>2. co' = [co EXCEPT !.room = room, !.sockets[c].step = "broadcast", !.sockets[c].tell = [type |-> "left", user |-> s]]
    BY <1>4 DEF Leave
  <2>3. \A k \in DOMAIN room : room[k] = co.room[k]
    BY <2>1
  <2> HIDE DEF room
  <2>4. Changes(co, co', c, y) /\ co'.room = room /\ co'.torn = co.torn
    <3>1. co'.sockets = [co.sockets EXCEPT ![c] = y]
      BY <1>1, <2>2, SocketShape DEF CoShape, IsSocket
    <3>2. co' \in [sockets : {co'.sockets}, room : {room}, ops : {co.ops}, torn : {co.torn}]
      BY <2>2, SocketShape DEF CoShape
    <3>3. QED
      BY <2>1, <3>1, <3>2, SocketShape DEF Changes
  <2>5. /\ y.session = s /\ y.open = x.open /\ y.step = "broadcast" /\ y.tell.type = "left" /\ y.tell.user = s
        /\ IsSocket(y)
    BY <1>1 DEF IsSocket, CoSteps, CoMessages
  <2> HIDE DEF y
  <2>6. /\ CoShape(co') /\ DOMAIN co'.sockets = DOMAIN co.sockets
        /\ co'.sockets[c] = y /\ \A b \in DOMAIN co.sockets \ {c} : co'.sockets[b] = co.sockets[b]
    BY <2>4, <2>5, SocketShape, OneChanges
  <2>7. ASSUME ~co.torn PROVE OneSocket(co') /\ SlotsTrue(co') /\ LeaversGone(co') /\ ListsTrue(co')
    <3>1. OneSocket(co) /\ SlotsTrue(co) /\ LeaversGone(co) /\ ListsTrue(co)
      BY <2>7 DEF CoInv, CoSound
    <3>2. ActiveSocket(y) /\ Leaves(y) /\ ~InRoom(y)
      BY <2>5 DEF ActiveSocket, Leaves, InRoom
    <3>3. OneSocket(co')
      BY <1>2, <2>5, <2>6, <3>1 DEF OneSocket
    <3>4. ASSUME NEW b \in DOMAIN co.sockets, InRoom(co'.sockets[b])
          PROVE  b # c /\ co'.sockets[b] = co.sockets[b] /\ co.sockets[b].session # s
      <4>1. b # c /\ co'.sockets[b] = co.sockets[b]
        BY <2>6, <3>2, <3>4
      <4>2. ActiveSocket(co.sockets[b])
        BY <3>4, <4>1 DEF InRoom
      <4>3. QED
        BY <1>2, <3>1, <4>1, <4>2 DEF OneSocket
    <3>5. SlotsTrue(co')
      <4>1. ASSUME NEW b \in DOMAIN co.sockets, InRoom(co'.sockets[b])
            PROVE  co'.sockets[b].session \in DOMAIN room /\ room[co'.sockets[b].session] = b
        <5>1. b # c /\ co'.sockets[b] = co.sockets[b] /\ co.sockets[b].session # s
          BY <3>4, <4>1
        <5>2. QED
          BY <2>1, <2>3, <3>1, <4>1, <5>1 DEF SlotsTrue
      <4>2. ASSUME NEW k \in DOMAIN room
            PROVE  \E b \in DOMAIN co.sockets : co'.sockets[b].session = k /\ InRoom(co'.sockets[b])
        <5> PICK b \in DOMAIN co.sockets : co.sockets[b].session = k /\ InRoom(co.sockets[b])
          BY <2>1, <3>1 DEF SlotsTrue
        <5>1. b # c
          BY <2>1
        <5>2. QED
          BY <2>6, <5>1
      <4>3. QED
        BY <2>4, <2>6, <4>1, <4>2 DEF SlotsTrue
    <3>6. LeaversGone(co')
      BY <1>1, <2>5, <2>6, <3>1 DEF LeaversGone
    <3>7. \A b, k : Owed(co, b, k) => Owed(co', b, k)
      BY <1>1, <2>6, OwedStays
    <3>8. ASSUME NEW b \in DOMAIN co.sockets, InRoom(co'.sockets[b]), co'.sockets[b].open, NEW k \in Sessions
          PROVE  \/ Owed(co', b, k)
                 \/ k \in co'.sockets[b].undone
                 \/ Reads(co'.sockets[b], k) <=> k \in DOMAIN room
      <4>1. b # c /\ co'.sockets[b] = co.sockets[b]
        BY <3>4, <3>8
      <4>2. CASE k = s
        BY <2>5, <2>6, <4>1, <4>2 DEF Owed, Telltale
      <4>3. CASE k # s
        <5>1. Owed(co, b, k) \/ k \in co.sockets[b].undone \/ (Reads(co.sockets[b], k) <=> k \in DOMAIN co.room)
          BY <3>1, <3>8, <4>1 DEF ListsTrue
        <5>2. QED
          BY <2>1, <3>7, <4>1, <4>3, <5>1
      <4>4. QED
        BY <4>2, <4>3
    <3>9. ListsTrue(co')
      BY <2>4, <2>6, <3>8 DEF ListsTrue
    <3>10. QED
      BY <3>3, <3>5, <3>6, <3>9
  <2>8. QED
    BY <2>4, <2>6, <2>7 DEF CoInv, CoSound
<1>5. QED
  BY <1>3, <1>4


(* A message reaches a socket that is open, and nothing else changes.      *)
GotOnly(s, t, d, m) ==
    /\ CoShape(t) /\ DOMAIN t.sockets = DOMAIN s.sockets /\ t.room = s.room /\ t.torn = s.torn
    /\ \A b \in DOMAIN s.sockets :
          /\ t.sockets[b].session = s.sockets[b].session /\ t.sockets[b].open = s.sockets[b].open
          /\ t.sockets[b].step = s.sockets[b].step /\ t.sockets[b].tell = s.sockets[b].tell
          /\ t.sockets[b].to = s.sockets[b].to /\ t.sockets[b].shown = s.sockets[b].shown
          /\ t.sockets[b].inbox = IF b = d /\ s.sockets[b].open THEN Append(s.sockets[b].inbox, m)
                                  ELSE s.sockets[b].inbox
          /\ t.sockets[b].undone = IF b = d /\ s.sockets[b].open THEN Undone(m, s.sockets[b])
                                   ELSE s.sockets[b].undone

LEMMA OneDelivery ==
    ASSUME NEW s, NEW t, NEW d, NEW m \in CoMessages, CoShape(s), t = Delivered(s, d, m)
    PROVE  GotOnly(s, t, d, m)
<1>1. CASE s.sockets[d].open /\ d \in DOMAIN s.sockets
  <2> DEFINE x == s.sockets[d]
             y == [x EXCEPT !.inbox = Append(@, m), !.undone = Undone(m, x)]
  <2>1. IsSocket(x)
    BY <1>1 DEF CoShape
  <2>2. t = [s EXCEPT !.sockets = [s.sockets EXCEPT ![d] = y]]
    <3>1. t = [s EXCEPT !.sockets[d] = y]
      BY <1>1 DEF Delivered
    <3> HIDE DEF y
    <3>2. QED
      BY <3>1 DEF CoShape
  <2>3. Changes(s, t, d, y) /\ t.room = s.room /\ t.torn = s.torn
    BY <2>2 DEF Changes, CoShape
  <2>4. /\ y.session = x.session /\ y.open = x.open /\ y.step = x.step /\ y.tell = x.tell /\ y.to = x.to
        /\ y.shown = x.shown /\ y.inbox = Append(x.inbox, m) /\ y.undone = Undone(m, x) /\ IsSocket(y)
    <3>1. Append(x.inbox, m) \in Seq(CoMessages)
      BY <2>1, AppendProperties DEF IsSocket
    <3>2. QED
      BY <2>1, <3>1 DEF IsSocket
  <2> HIDE DEF y
  <2>5. /\ CoShape(t) /\ DOMAIN t.sockets = DOMAIN s.sockets
        /\ t.sockets[d] = y /\ \A b \in DOMAIN s.sockets \ {d} : t.sockets[b] = s.sockets[b]
    BY <1>1, <2>3, <2>4, OneChanges
  <2>6. ASSUME NEW b \in DOMAIN s.sockets
        PROVE  /\ t.sockets[b].session = s.sockets[b].session /\ t.sockets[b].open = s.sockets[b].open
               /\ t.sockets[b].step = s.sockets[b].step /\ t.sockets[b].tell = s.sockets[b].tell
               /\ t.sockets[b].to = s.sockets[b].to /\ t.sockets[b].shown = s.sockets[b].shown
               /\ t.sockets[b].inbox = IF b = d /\ s.sockets[b].open THEN Append(s.sockets[b].inbox, m)
                                       ELSE s.sockets[b].inbox
               /\ t.sockets[b].undone = IF b = d /\ s.sockets[b].open THEN Undone(m, s.sockets[b])
                                        ELSE s.sockets[b].undone
    <3>1. CASE b = d
      BY <1>1, <2>4, <2>5, <3>1
    <3>2. CASE b # d
      BY <2>5, <3>2
    <3>3. QED
      BY <3>1, <3>2
  <2>7. QED
    BY <2>3, <2>5, <2>6 DEF GotOnly
<1>2. CASE ~(s.sockets[d].open /\ d \in DOMAIN s.sockets)
  <2>1. t = s
    <3>1. CASE s.sockets[d].open
      <4> DEFINE y == [s.sockets[d] EXCEPT !.inbox = Append(@, m), !.undone = Undone(m, s.sockets[d])]
      <4>1. d \notin DOMAIN s.sockets
        BY <1>2, <3>1
      <4>2. t = [s EXCEPT !.sockets[d] = y]
        BY <3>1 DEF Delivered
      <4> HIDE DEF y
      <4>3. s.sockets = [b \in DOMAIN s.sockets |-> s.sockets[b]]
        <5>1. s.sockets \in Seq(Range(s.sockets))
          BY DEF CoShape
        <5>2. QED
          BY <5>1
      <4>4. [s.sockets EXCEPT ![d] = y] = s.sockets
        BY <4>1, <4>3
      <4>5. t = [s EXCEPT !.sockets = s.sockets]
        BY <4>2, <4>4 DEF CoShape
      <4>6. QED
        BY <4>5 DEF CoShape
    <3>2. CASE ~s.sockets[d].open
      BY <3>2 DEF Delivered
    <3>3. QED
      BY <3>1, <3>2
  <2>2. QED
    BY <1>2, <2>1 DEF GotOnly
<1>3. QED
  BY <1>1, <1>2

(* One more socket is told, or telling it fails.                           *)
LEMMA TellSound ==
    ASSUME CoInv, NEW c \in DOMAIN co.sockets, Tell(c)
    PROVE  CoInv'
<1> DEFINE x == co.sockets[c]
           m == x.tell
<1>1. IsSocket(x) /\ x.step = "telling" /\ CoShape(co)
  BY SocketShape DEF Tell
<1>2. m \in CoMessages /\ m.type # "snapshot"
      /\ (m.type \in {"joined", "left"} => m.user = x.session)
  BY <1>1 DEF IsSocket
<1> PICK d \in x.to :
       \/ co' = Telling(Delivered(co, d, m), c, x.to \ {d})
       \/ co' = [co EXCEPT !.torn = TRUE, !.sockets[c] = [@ EXCEPT !.tell = Null, !.to = {},
                              !.step = IF m.type = "event" THEN "leaving" ELSE "over"]]
  BY DEF Tell
<1>3. CASE co' = [co EXCEPT !.torn = TRUE, !.sockets[c] = [@ EXCEPT !.tell = Null, !.to = {},
                                !.step = IF m.type = "event" THEN "leaving" ELSE "over"]]
  <2> DEFINE step == IF m.type = "event" THEN "leaving" ELSE "over"
             y == [x EXCEPT !.tell = Null, !.to = {}, !.step = step]
  <2>1. step \in {"leaving", "over"}
    OBVIOUS
  <2>2. co' = [co EXCEPT !.torn = TRUE, !.sockets = [@ EXCEPT ![c] = y]]
    BY <1>3
  <2> HIDE DEF step
  <2>3. IsSocket(y)
    BY <1>1, <2>1 DEF IsSocket, CoSteps
  <2> HIDE DEF y
  <2>4. Changes(co, co', c, y) /\ co'.torn = TRUE
    BY <2>2, SocketShape, ZenonT(60) DEF Changes, CoShape
  <2>5. CoShape(co')
    BY <1>1, <2>3, <2>4, OneChanges
  <2>6. QED
    BY <2>4, <2>5 DEF CoInv, CoSound
<1>4. CASE co' = Telling(Delivered(co, d, m), c, x.to \ {d})
  <2> DEFINE h == Delivered(co, d, m)
             targets == x.to \ {d}
  <2>1. /\ CoShape(h) /\ DOMAIN h.sockets = DOMAIN co.sockets /\ h.room = co.room /\ h.torn = co.torn
        /\ \A b \in DOMAIN co.sockets :
              /\ h.sockets[b].session = co.sockets[b].session /\ h.sockets[b].open = co.sockets[b].open
              /\ h.sockets[b].step = co.sockets[b].step /\ h.sockets[b].tell = co.sockets[b].tell
              /\ h.sockets[b].to = co.sockets[b].to /\ h.sockets[b].shown = co.sockets[b].shown
              /\ h.sockets[b].inbox = IF b = d /\ co.sockets[b].open THEN Append(co.sockets[b].inbox, m)
                                      ELSE co.sockets[b].inbox
              /\ h.sockets[b].undone = IF b = d /\ co.sockets[b].open THEN Undone(m, co.sockets[b])
                                       ELSE co.sockets[b].undone
    <3>1. CoShape(co) /\ m \in CoMessages
      BY <1>1, <1>2
    <3>2. GotOnly(co, h, d, m)
      BY <3>1, OneDelivery
    <3> HIDE DEF h
    <3>3. QED
      BY <3>2 DEF GotOnly
  <2> HIDE DEF h, targets
  <2>2. co' = Telling(h, c, targets)
    BY <1>4 DEF h, targets
  <2>3. Tells(h, h, c)
    <3>1. h \in [sockets : {h.sockets}, room : {h.room}, ops : {h.ops}, torn : {h.torn}]
      BY <2>1 DEF CoShape
    <3>2. [h.sockets[c] EXCEPT !.step = "telling"] = h.sockets[c]
      <4>1. IsSocket(h.sockets[c]) /\ h.sockets[c].step = "telling"
        BY <1>1, <2>1 DEF CoShape
      <4> DEFINE z == h.sockets[c]
      <4> HIDE DEF z
      <4>2. [z EXCEPT !.step = "telling"] = z
        BY <4>1 DEF IsSocket, z
      <4>3. QED
        BY <4>2 DEF z
    <3>3. h.sockets = [b \in DOMAIN h.sockets |-> h.sockets[b]]
      <4>1. h.sockets \in Seq(Range(h.sockets))
        BY <2>1 DEF CoShape
      <4>2. QED
        BY <4>1
    <3>4. [h.sockets EXCEPT ![c] = h.sockets[c]] = h.sockets
      BY <2>1, <3>3
    <3>5. QED
      BY <3>1, <3>2, <3>4 DEF Tells
  <2>4. /\ CoShape(co') /\ DOMAIN co'.sockets = DOMAIN co.sockets /\ co'.room = co.room /\ co'.torn = co.torn
        /\ \A b \in DOMAIN co.sockets \ {c} : co'.sockets[b] = h.sockets[b]
        /\ co'.sockets[c].session = x.session /\ co'.sockets[c].open = x.open
        /\ co'.sockets[c].inbox = h.sockets[c].inbox /\ co'.sockets[c].shown = x.shown
        /\ co'.sockets[c].undone = h.sockets[c].undone
        /\ targets # {} => co'.sockets[c].step = "telling" /\ co'.sockets[c].to = targets /\ co'.sockets[c].tell = m
        /\ targets = {} => co'.sockets[c].step = (IF m.type = "left" THEN "over" ELSE "receiving")
    <3>1. ASSUME NEW t, t = Telling(h, c, targets)
          PROVE  /\ CoShape(t) /\ DOMAIN t.sockets = DOMAIN h.sockets /\ t.room = h.room /\ t.torn = h.torn
                 /\ \A b \in DOMAIN h.sockets \ {c} : t.sockets[b] = h.sockets[b]
                 /\ t.sockets[c].session = h.sockets[c].session /\ t.sockets[c].open = h.sockets[c].open
                 /\ t.sockets[c].inbox = h.sockets[c].inbox /\ t.sockets[c].shown = h.sockets[c].shown
                 /\ t.sockets[c].undone = h.sockets[c].undone
                 /\ targets # {} => /\ t.sockets[c].step = "telling" /\ t.sockets[c].to = targets
                                    /\ t.sockets[c].tell = h.sockets[c].tell
                 /\ targets = {} => /\ t.sockets[c].step = (IF co.sockets[c].tell.type = "left" THEN "over" ELSE "receiving")
      BY <1>1, <2>1, <2>3, <3>1, TellsOn
    <3>2. QED
      BY <2>1, <2>2, <3>1
  <2> DEFINE y == co'.sockets[c]
  <2>5. /\ y.step \in {"telling", "over", "receiving"}
        /\ Leaves(x) <=> m.type = "left"
        /\ Leaves(x) \/ y.step # "over"
        /\ ActiveSocket(y) => ActiveSocket(x)
        /\ Leaves(y) => Leaves(x)
        /\ InRoom(y) <=> InRoom(x)
    BY <1>1, <2>4 DEF Leaves, ActiveSocket, InRoom
  <2>6. \A b \in DOMAIN co.sockets :
           /\ co'.sockets[b].session = co.sockets[b].session /\ co'.sockets[b].open = co.sockets[b].open
           /\ co'.sockets[b].inbox = h.sockets[b].inbox /\ co'.sockets[b].shown = co.sockets[b].shown
           /\ co'.sockets[b].undone = h.sockets[b].undone
           /\ co'.sockets[b].step = "greeting" <=> co.sockets[b].step = "greeting"
           /\ co.sockets[b].step = "greeting" => co'.sockets[b].tell = co.sockets[b].tell
           /\ ActiveSocket(co'.sockets[b]) => ActiveSocket(co.sockets[b])
           /\ InRoom(co'.sockets[b]) <=> InRoom(co.sockets[b])
           /\ b # c => Leaves(co'.sockets[b]) = Leaves(co.sockets[b]) /\ co'.sockets[b].step = co.sockets[b].step
    BY <1>1, <2>1, <2>4, <2>5 DEF ActiveSocket, InRoom, Leaves
  <2>7. ASSUME ~co.torn PROVE OneSocket(co') /\ SlotsTrue(co') /\ LeaversGone(co') /\ ListsTrue(co')
    <3>1. OneSocket(co) /\ SlotsTrue(co) /\ LeaversGone(co) /\ ListsTrue(co)
      BY <2>7 DEF CoInv, CoSound
    <3>2. OneSocket(co') /\ SlotsTrue(co')
      BY <2>4, <2>6, <2>7, RoomStays
    <3>3. LeaversGone(co')
      BY <2>4, <2>5, <2>6, <3>1 DEF LeaversGone
    <3>4. m.type \in {"joined", "left"} => (m.type = "joined" <=> x.session \in DOMAIN co.room)
      <4>1. CASE m.type = "joined"
        <5>1. InRoom(x)
          BY <1>1, <4>1 DEF InRoom, ActiveSocket, Leaves
        <5>2. QED
          BY <3>1, <4>1, <5>1 DEF SlotsTrue
      <4>2. CASE m.type = "left"
        <5>1. ActiveSocket(x) /\ ~InRoom(x)
          BY <1>1, <4>2 DEF InRoom, ActiveSocket, Leaves
        <5>2. ASSUME x.session \in DOMAIN co.room PROVE FALSE
          <6> PICK b \in DOMAIN co.sockets : co.sockets[b].session = x.session /\ InRoom(co.sockets[b])
            BY <3>1, <5>2 DEF SlotsTrue
          <6>1. ActiveSocket(co.sockets[b])
            BY DEF InRoom
          <6>2. QED
            BY <3>1, <5>1, <6>1 DEF OneSocket
        <5>3. QED
          BY <4>2, <5>2
      <4>3. QED
        BY <4>1, <4>2
    <3>5. ASSUME NEW b \in DOMAIN co.sockets, InRoom(co'.sockets[b]), co'.sockets[b].open, NEW k \in Sessions
          PROVE  \/ Owed(co', b, k)
                 \/ k \in co'.sockets[b].undone
                 \/ Reads(co'.sockets[b], k) <=> k \in DOMAIN co.room
      <4> DEFINE z == co.sockets[b]
                 r == co'.sockets[b]
      <4>1. z.inbox \in Seq(CoMessages) /\ z.open /\ InRoom(z) /\ IsSocket(z)
        BY <2>6, <3>5, SocketShape DEF IsSocket
      <4>2. /\ r.shown = z.shown /\ (r.step = "greeting" <=> z.step = "greeting")
            /\ z.step = "greeting" => r.tell = z.tell
            /\ b = d => r.inbox = Append(z.inbox, m) /\ r.undone = Undone(m, z)
            /\ b # d => r.inbox = z.inbox /\ r.undone = z.undone
        <5>1. /\ r.shown = z.shown /\ (r.step = "greeting" <=> z.step = "greeting")
              /\ r.inbox = h.sockets[b].inbox /\ r.undone = h.sockets[b].undone
              /\ (z.step = "greeting" => r.tell = z.tell)
          BY <2>6
        <5>2. /\ b = d => h.sockets[b].inbox = Append(z.inbox, m) /\ h.sockets[b].undone = Undone(m, z)
              /\ b # d => h.sockets[b].inbox = z.inbox /\ h.sockets[b].undone = z.undone
          BY <2>1, <4>1
        <5>3. QED
          BY <5>1, <5>2
      <4> HIDE DEF r
      <4>3. Append(z.inbox, m) \in Seq(CoMessages)
        BY <1>2, <4>1, AppendProperties
      <4>4. ASSUME z.step = "greeting"
            PROVE  /\ Reads(z, k) <=> k \in z.tell.users
                   /\ Reads(r, k) <=> k \in z.tell.users
        <5>1. z.tell \in CoMessages /\ Of(z.tell, k) /\ (Says(z.tell, k) <=> k \in z.tell.users)
          BY <4>1, <4>4 DEF IsSocket, Of, Says
        <5>2. WillList(Append(z.inbox, z.tell), z.shown, k) <=> Says(z.tell, k)
          BY <4>1, <5>1, ToldLast
        <5>3. WillList(Append(Append(z.inbox, m), z.tell), z.shown, k) <=> Says(z.tell, k)
          BY <4>3, <5>1, ToldLast
        <5>4. Inbox(r) = Append(z.inbox, z.tell) \/ Inbox(r) = Append(Append(z.inbox, m), z.tell)
          BY <4>2, <4>4 DEF Inbox
        <5>5. Inbox(z) = Append(z.inbox, z.tell)
          BY <4>4 DEF Inbox
        <5>6. QED
          BY <4>2, <5>1, <5>2, <5>3, <5>4, <5>5 DEF Reads
      <4>5. CASE b = d /\ Of(m, k)
        <5>1. Says(m, k) <=> k \in DOMAIN co.room
          BY <1>2, <3>4, <4>5 DEF Of, Says
        <5>2. m.type \in {"joined", "left"} /\ m.user = k /\ (Says(m, k) <=> m.type = "joined")
          BY <1>2, <4>5 DEF Of, Says
        <5>3. CASE z.step = "greeting"
          <6>1. CASE Outdates(m, z)
            BY <4>2, <4>5, <5>2, <6>1 DEF Undone, r
          <6>2. CASE ~Outdates(m, z)
            <7>1. m.type = "joined" <=> k \in z.tell.users
              BY <5>2, <5>3, <6>2 DEF Outdates
            <7>2. QED
              BY <4>4, <5>1, <5>2, <5>3, <7>1 DEF r
          <6>3. QED
            BY <6>1, <6>2
        <5>4. CASE z.step # "greeting"
          <6>1. WillList(Append(z.inbox, m), z.shown, k) <=> Says(m, k)
            BY <1>2, <4>1, <4>5, ToldLast
          <6>2. Reads(r, k) <=> Says(m, k)
            BY <4>2, <4>5, <5>4, <6>1 DEF Reads, Inbox
          <6>3. QED
            BY <5>1, <6>2 DEF r
        <5>5. QED
          BY <5>3, <5>4
      <4>6. CASE ~(b = d /\ Of(m, k))
        <5>1. Reads(r, k) <=> Reads(z, k)
          <6>1. CASE z.step = "greeting"
            BY <4>4, <6>1
          <6>2. CASE z.step # "greeting" /\ b = d
            <7>1. WillList(Append(z.inbox, m), z.shown, k) <=> WillList(z.inbox, z.shown, k)
              BY <1>2, <4>1, <4>6, <6>2, ToldLast
            <7>2. QED
              BY <4>2, <6>2, <7>1 DEF Reads, Inbox
          <6>3. CASE z.step # "greeting" /\ b # d
            BY <4>2, <6>3 DEF Reads, Inbox
          <6>4. QED
            BY <6>1, <6>2, <6>3
        <5>2. ASSUME Owed(co, b, k) PROVE Owed(co', b, k)
          <6> PICK e \in DOMAIN co.sockets : /\ co.sockets[e].session = k /\ Telltale(co, e, b)
                                             /\ co.sockets[e].tell.type \in {"joined", "left", "snapshot"}
            BY <5>2 DEF Owed
          <6>1. CASE e # c
            BY <2>1, <2>4, <6>1 DEF Owed, Telltale
          <6>2. CASE e = c
            <7>1. b \in x.to /\ m.type \in {"joined", "left"} /\ k = x.session
              BY <1>1, <1>2, <6>2 DEF Telltale
            <7>2. Of(m, k)
              BY <1>2, <7>1 DEF Of
            <7>3. b \in targets
              BY <4>6, <7>1, <7>2 DEF targets
            <7>4. /\ co'.sockets[c].step = "telling" /\ b \in co'.sockets[c].to
                  /\ co'.sockets[c].tell = m /\ co'.sockets[c].session = k
              BY <2>4, <7>1, <7>3
            <7>5. QED
              BY <2>4, <7>1, <7>4 DEF Owed, Telltale
          <6>3. QED
            BY <6>1, <6>2
        <5>3. k \in z.undone => k \in r.undone
          <6>1. CASE b = d
            <7>1. m.type \notin {"joined", "left"} \/ m.user # k
              BY <4>6, <6>1 DEF Of
            <7>2. QED
              BY <4>2, <6>1, <7>1 DEF Undone
          <6>2. CASE b # d
            BY <4>2, <6>2
          <6>3. QED
            BY <6>1, <6>2
        <5>4. Owed(co, b, k) \/ k \in z.undone \/ (Reads(z, k) <=> k \in DOMAIN co.room)
          BY <3>1, <4>1 DEF ListsTrue
        <5>5. QED
          BY <5>1, <5>2, <5>3, <5>4 DEF r
      <4>7. QED
        BY <4>5, <4>6
    <3>6. ListsTrue(co')
      BY <2>4, <3>5 DEF ListsTrue
    <3>7. QED
      BY <3>2, <3>3, <3>6
  <2>8. QED
    BY <2>4, <2>7 DEF CoInv, CoSound
<1>5. QED
  BY <1>3, <1>4

LEMMA CoInitInv == CoInit => CoInv
<1> SUFFICES ASSUME CoInit PROVE CoInv
  OBVIOUS
<1>1. co = [sockets |-> <<>>, room |-> <<>>, ops |-> CoOps, torn |-> FALSE]
  BY DEF CoInit
<1>2. DOMAIN co.sockets = {} /\ DOMAIN co.room = {} /\ co.room = [k \in DOMAIN co.room |-> co.room[k]]
  BY <1>1
<1>3. CoShape(co)
  <2>1. co.sockets \in Seq(Range(co.sockets))
    BY <1>1
  <2>2. QED
    BY <1>1, <1>2, <2>1 DEF CoShape
<1>4. QED
  BY <1>2, <1>3 DEF CoInv, CoSound, OneSocket, SlotsTrue, LeaversGone, ListsTrue

LEMMA CoNextInv == CoInv /\ [CoNext]_co => CoInv'
<1> SUFFICES ASSUME CoInv, [CoNext]_co PROVE CoInv'
  OBVIOUS
<1>1. CASE Connect
  BY <1>1, ConnectSound
<1>2. CASE \E c \in Sockets : Receive(c) \/ CloseSocket(c) \/ Handler(c)
  <2> PICK c \in DOMAIN co.sockets : Receive(c) \/ CloseSocket(c) \/ Handler(c)
    BY <1>2 DEF Sockets
  <2>1. CASE Receive(c)
    BY <2>1, ReceiveSound
  <2>2. CASE CloseSocket(c)
    BY <2>2, CloseSound
  <2>3. CASE Refuse(c) \/ Say(c) \/ Disconnected(c)
    BY <2>3, SpeechSound
  <2>4. CASE Join(c)
    BY <2>4, JoinSound
  <2>5. CASE Greet(c)
    BY <2>5, GreetSound
  <2>6. CASE Broadcast(c)
    BY <2>6, BroadcastSound
  <2>7. CASE Tell(c)
    BY <2>7, TellSound
  <2>8. CASE Leave(c)
    BY <2>8, LeaveSound
  <2>9. QED
    BY <2>1, <2>2, <2>3, <2>4, <2>5, <2>6, <2>7, <2>8 DEF Handler
<1>3. CASE co' = co
  BY <1>3 DEF CoInv
<1>4. QED
  BY <1>1, <1>2, <1>3 DEF CoNext


(* With nothing under way a list says what it will.                        *)
LEMMA CoInvSuffices == CoInv => EveryoneListed
<1> DEFINE here == {s \in Sessions : \E b \in Sockets : co.sockets[b].open /\ co.sockets[b].session = s}
<1> SUFFICES ASSUME CoInv, ~co.torn,
                    \A c \in Sockets : /\ co.sockets[c].step \in {"receiving", "over"}
                                       /\ co.sockets[c].inbox = <<>>
                                       /\ co.sockets[c].step = "receiving" => co.sockets[c].open,
                    NEW c \in Sockets, co.sockets[c].step = "receiving",
                    NEW k \in Sessions \ co.sockets[c].undone
             PROVE  co.sockets[c].shown[k] = OnList(here)[k]
  BY DEF EveryoneListed
<1> DEFINE shown == co.sockets[c].shown
<1>1. SlotsTrue(co) /\ LeaversGone(co) /\ ListsTrue(co)
  BY DEF CoInv, CoSound
<1>2. \A b \in DOMAIN co.sockets : InRoom(co.sockets[b]) <=> co.sockets[b].open
  BY <1>1 DEF Sockets, LeaversGone, InRoom, ActiveSocket, Leaves
<1>3. shown \in [Sessions -> {0, 1}] /\ \A b \in DOMAIN co.sockets : co.sockets[b].session \in Sessions
  BY SocketShape DEF IsSocket, Sockets
<1>4. shown[k] = 1 <=> k \in here
  <2>1. ~Owed(co, c, k)
    BY DEF Owed, Telltale, Sockets
  <2>2. Reads(co.sockets[c], k) <=> k \in DOMAIN co.room
    BY <1>1, <1>2, <2>1 DEF ListsTrue, Sockets
  <2>3. Reads(co.sockets[c], k) <=> shown[k] = 1
    BY DEF Reads, Inbox, WillList
  <2>4. k \in DOMAIN co.room <=> k \in here
    BY <1>1, <1>2 DEF SlotsTrue, Sockets
  <2>5. QED
    BY <2>2, <2>3, <2>4
<1> HIDE DEF here, shown
<1>5. QED
  BY <1>3, <1>4 DEF OnList, shown

(* Whatever order joining, snapshots, leaving, events and broadcasts        *)
(* overlap in, with nothing under way each window lists the sessions that   *)
(* are there, but for those it heard of before an older snapshot (join,     *)
(* leave, broadcast, useCollaboration).                                     *)
THEOREM PresenceInvariant == CoSpec => [](CoInv /\ EveryoneListed)
<1>1. CoInit => CoInv
  BY CoInitInv
<1>2. CoInv /\ [CoNext]_co => CoInv'
  BY CoNextInv
<1>3. CoInv => CoInv /\ EveryoneListed
  BY CoInvSuffices
<1>4. QED
  BY <1>1, <1>2, <1>3, PTL DEF CoSpec

=============================================================================
