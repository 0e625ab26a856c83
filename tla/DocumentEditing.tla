---------------------------- MODULE DocumentEditing ----------------------------
(* One document in the browser tabs that have it open: BlockDocumentEditor's      *)
(* debounced save, the cached document it starts from (DocumentClient), and the   *)
(* optimistic version of PUT /documents/{id}/content.                             *)
(*                                                                                *)
(* A text is a member of DeTexts; every write of the server's text gets a stamp   *)
(* of its own.  Presence and the events of the collaboration room change nothing  *)
(* an editor does and are left out.                                               *)
EXTENDS Screen, Naturals, FiniteSets

CONSTANTS
    DeTabs,       \* browser tabs
    DeEditors,    \* editors that can be mounted, in all tabs
    DeTexts,      \* what users write
    DeLosses,     \* bound on requests that fail on their way
    DeOps         \* bound on what the users do

\* What an editor holds; stamps are the texts it has seen.
DeMounted == [tab : DeTabs, open : BOOLEAN, text : DeTexts, version : Nat, timer : BOOLEAN,
              state : {"saved", "saving", "error"}, seen : SUBSET Nat]

ASSUME DeAssumption == DeLosses \in Nat /\ DeOps \in Nat /\ Closed \notin DeMounted

VARIABLE de

\* An editor holds its own text and version; it is not told of later ones.
MountedEditor(t, d) ==
    [tab |-> t, open |-> TRUE, text |-> d.text, version |-> d.version,
     timer |-> FALSE, state |-> "saved", seen |-> {d.stamp}]

Unused == {e \in DeEditors : de.ed[e] = Closed}
Open(t) == {e \in DeEditors \ Unused : de.ed[e].tab = t /\ de.ed[e].open}

\* A user's operation, of which there are so many.
UserDoes(new) == de.ops > 0 /\ de' = [new EXCEPT !.ops = @ - 1]

-------------------------------------------------------------------------------
(* The page of the document *)

\* The cached document is mounted at once; whether it is fetched again depends on its age.
OpenDocument(t) ==
    /\ Open(t) = {} /\ de.fetch[t] = Closed
    /\ IF de.cache[t] = Null
       THEN UserDoes([de EXCEPT !.fetch[t] = Asked])
       ELSE \E e \in Unused, fetch \in {Closed, Asked} :
               UserDoes([de EXCEPT !.ed[e] = MountedEditor(t, de.cache[t]), !.fetch[t] = fetch])

ServeDocument(t) ==
    /\ de.fetch[t] = Asked
    /\ de' = [de EXCEPT !.fetch[t] = de.doc]

\* A mounted editor does not look at what arrives.
DocumentArrives(t) ==
    /\ de.fetch[t] \notin {Closed, Asked}
    /\ LET in == [de EXCEPT !.cache[t] = de.fetch[t], !.fetch[t] = Closed]
       IN IF Open(t) # {} THEN de' = in
          ELSE \E e \in Unused : de' = [in EXCEPT !.ed[e] = MountedEditor(t, de.fetch[t])]

\* Leaving the page clears no timer.
LeaveDocument(t) == \E e \in Open(t) : UserDoes([de EXCEPT !.ed[e].open = FALSE])

Page(t) == OpenDocument(t) \/ ServeDocument(t) \/ DocumentArrives(t) \/ LeaveDocument(t)

-------------------------------------------------------------------------------
(* The editor *)

Write(e) ==
    /\ de.ed[e] # Closed /\ de.ed[e].open
    /\ \E x \in DeTexts \ {de.ed[e].text} :
          UserDoes([de EXCEPT !.ed[e].text = x, !.ed[e].timer = TRUE])

\* The title is stored when its input is left, and has no version.
Retitle(e) ==
    /\ de.ed[e] # Closed /\ de.ed[e].open
    /\ UserDoes([de EXCEPT !.doc.titled = @ + 1])

\* 700 ms after the last change, with the version of the last answer.
SaveContent(e) ==
    /\ de.ed[e] # Closed /\ de.ed[e].timer
    /\ de' = [de EXCEPT !.ed[e].timer = FALSE, !.ed[e].state = "saving", !.sent = @ + 1,
                        !.net = @ \cup {[nth |-> de.sent + 1, ed |-> e, text |-> de.ed[e].text,
                                         expected |-> de.ed[e].version, step |-> "sent"]}]

Editor(e) == Write(e) \/ Retitle(e) \/ SaveContent(e)

-------------------------------------------------------------------------------
(* PUT /documents/{id}/content *)

Moved(m, to) == (de.net \ {m}) \cup {to}

\* Two saves overlap when one begins while another is between its check and its answer.
Overlaps(m) == \E n \in de.net \ {m} : n.step \in {"checked", "written"}

\* A mutant: the version is not compared.
CheckNothing(m) ==
    /\ m.step = "sent"
    /\ de' = [de EXCEPT !.net = Moved(m, [m EXCEPT !.step = "checked", !.expected = de.doc.version]),
                        !.overlap = @ \/ Overlaps(m)]

CheckVersion(m) ==
    /\ m.step = "sent"
    /\ de' = [de EXCEPT !.net = Moved(m, [m EXCEPT !.step = IF m.expected = de.doc.version
                                                            THEN "checked" ELSE "refused"]),
                        !.overlap = @ \/ Overlaps(m)]

\* The row is not locked: the version written is the one after the version read.
ReplaceContent(m) ==
    /\ m.step = "checked"
    /\ de' = [de EXCEPT !.doc.text = m.text, !.doc.version = m.expected + 1, !.doc.stamp = m.nth,
                        !.ed[m.ed].seen = @ \cup {m.nth},
                        !.net = Moved(m, [m EXCEPT !.step = "written"])]

\* The answer is read from the row after the commit.
RefreshDocument(m) ==
    /\ m.step = "written"
    /\ de' = [de EXCEPT !.net = Moved(m, [m EXCEPT !.step = "answered", !.expected = de.doc.version])]

SaveAnswered(m) ==
    /\ m.step = "answered"
    /\ de' = [de EXCEPT !.net = @ \ {m}, !.ed[m.ed].version = m.expected, !.ed[m.ed].state = "saved"]

\* After a refusal or a failure the text stays in the editor, and nothing tries again.
SaveRefused(m) ==
    /\ m.step = "refused"
    /\ de' = [de EXCEPT !.net = @ \ {m}, !.ed[m.ed].state = "error"]

SaveLost(m) ==
    /\ m.step \in {"sent", "answered"} /\ de.losses > 0
    /\ de' = [de EXCEPT !.net = @ \ {m}, !.ed[m.ed].state = "error", !.losses = @ - 1]

Saving(m) == CheckVersion(m) \/ ReplaceContent(m) \/ RefreshDocument(m)
               \/ SaveAnswered(m) \/ SaveRefused(m) \/ SaveLost(m)

-------------------------------------------------------------------------------
DeInit ==
    \E x \in DeTexts :
      de = [doc |-> [text |-> x, version |-> 1, stamp |-> 0, titled |-> 0],
            cache |-> [t \in DeTabs |-> Null], fetch |-> [t \in DeTabs |-> Closed],
            ed |-> [e \in DeEditors |-> Closed], net |-> {}, sent |-> 0,
            overlap |-> FALSE, losses |-> DeLosses, ops |-> DeOps]

DeNext == \/ \E t \in DeTabs : Page(t)
          \/ \E e \in DeEditors : Editor(e)
          \/ \E m \in de.net : Saving(m)

DeSpec == DeInit /\ [][DeNext]_de

-------------------------------------------------------------------------------
(* Properties *)

\* As long as no two saves overlap in the server, a save never replaces a text that its
\* editor neither started from nor wrote: not from an old cache, not after leaving and
\* opening again, not with answers lost (replace_document_content).  Overlapping ones do:
\* both pass the check, or the answer of one tells the version of the other.
NothingReplacedUnseen ==
    [][(de # Closed /\ ~de.overlap) =>
         \A m \in de.net : ReplaceContent(m) => de.doc.stamp \in de.ed[m.ed].seen]_de

\* "BlockNote is loaded client-side and autosaves after a short debounce": with one tab and no
\* request lost, once the timers have run and nothing is on its way, the document has the text
\* of the editor that is open in it (saveContent).
AutosaveStoresText ==
    (de # Closed /\ Cardinality(DeTabs) = 1 /\ de.net = {}) =>
    \A e \in DeEditors \ Unused :
        (de.ed[e].open /\ \A d \in DeEditors \ Unused : ~de.ed[d].timer) => de.doc.text = de.ed[e].text

===============================================================================
