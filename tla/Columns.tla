-------------------------------- MODULE Columns --------------------------------
(* The columns of a database and the places of the Table view that change them:   *)
(* a header that is dragged or resized, its menu (column-menu.tsx), the settings   *)
(* beside the view (settings-sidebar.tsx), the form of a new column, with           *)
(* FieldConfig in the menu and in the settings; their requests and the handlers of  *)
(* api/engine.py; the cached list of columns.                                       *)
(*                                                                                 *)
(* A column has its place (order), its name and its options: "set" stands for the   *)
(* part FieldConfig edits, "sub" marks the two columns of sub-items.  A menu, the    *)
(* form and the settings cover the page, so one of them is open at a time.          *)
EXTENDS Screen, Integers, Sequences, SequencesExt, FiniteSets, FiniteSetsExt

CONSTANTS
    CfStart,     \* how many columns there are at first
    CfNames,     \* what is typed as a name; "" when nothing but spaces
    CfSets,      \* what FieldConfig sets, also the text of a formula
    CfChoices,   \* choices a column may have
    CfPending,   \* bound on requests under way
    CfMost,      \* bound on columns
    CfOps        \* bound on what the user sends; then they leave the page alone

ASSUME CfAssumption == CfStart \in Nat \ {0} /\ CfMost \in Nat

VARIABLE cf

Plain == [set |-> Null, choices |-> {}, width |-> Null, wrap |-> FALSE, sub |-> FALSE]
Ids(list) == [i \in DOMAIN list |-> list[i].id]
FieldOf(list, id) == CHOOSE f \in Range(list) : f.id = id

-------------------------------------------------------------------------------
(* The server *)

NextPlace(fields) == Max({0} \cup {f.order : f \in fields}) + 1

\* One column after all others, or two.
FieldsCreated(s, names, opts) ==
    [s EXCEPT !.fields = @ \cup {[id |-> s.made + k, order |-> NextPlace(s.fields) + k - 1,
                                  name |-> names[k], opts |-> opts] : k \in DOMAIN names},
              !.made = @ + Len(names)]

\* Those named get their index; all others keep their places.
FieldsReordered(fields, ids) ==
    {IF f.id \in Range(ids) THEN [f EXCEPT !.order = (CHOOSE i \in DOMAIN ids : ids[i] = f.id) - 1]
     ELSE f : f \in fields}

\* The options are replaced as a whole.
FieldUpdated(fields, m) ==
    {IF f.id = m.id THEN [f EXCEPT !.name = IF m.name = Null THEN @ ELSE m.name, !.opts = m.opts]
     ELSE f : f \in fields}

\* ORDER BY order alone: columns of the same place come in any order.
FieldListings(fields) ==
    {l \in SetToSeqs(fields) : \A i, j \in DOMAIN l : i < j => l[i].order <= l[j].order}

-------------------------------------------------------------------------------
(* The list of columns *)

\* What is invalidated is fetched again; a fetch under way is given up.
FieldsInvalidated(s) == [s EXCEPT !.fetch = Asked]

ServeFields == /\ cf.fetch = Asked
               /\ \E l \in FieldListings(cf.fields) : cf' = [cf EXCEPT !.fetch = l]

\* The settings show their list again when the column they edit is gone.
FieldsArrive ==
    /\ cf.fetch \notin {Closed, Asked}
    /\ LET p == cf.panel
           lost == p # Closed /\ p.at = "settings" /\ p.field # NoField
                     /\ p.field.id \notin Range(Ids(cf.fetch))
       IN cf' = [cf EXCEPT !.shown = cf.fetch, !.fetch = Closed,
                           !.panel = CASE lost -> [p EXCEPT !.field = NoField]
                                       [] ~lost /\ p # Closed /\ p.at = "settings" /\ p.field # NoField ->
                                             [p EXCEPT !.field = FieldOf(cf.fetch, p.field.id)]
                                       [] OTHER -> p]

-------------------------------------------------------------------------------
(* What the user does *)

PanelAt(place) == cf.panel # Closed /\ cf.panel.at = place /\ cf.drag = Closed
AtTable == cf.panel = Closed /\ cf.drag = Closed

Request(do) == [nth |-> cf.sent, do |-> do, step |-> "sent", ids |-> <<>>, names |-> <<>>, id |-> NoField,
                name |-> Null, opts |-> Null, target |-> NoField, side |-> Null, from |-> Null]
AsksServer(s, m) ==
    /\ Cardinality(cf.net) < CfPending
    /\ cf' = [s EXCEPT !.ops = @ - 1, !.sent = @ + 1, !.net = @ \cup {m}]

ClosePanel == /\ cf.panel # Closed /\ cf.drag = Closed
              /\ ("formula" \in DOMAIN cf.panel => cf.panel.formula = Closed)
              /\ cf' = [cf EXCEPT !.panel = Closed]

\* FieldConfig starts from the column as it is then, and keeps its own options from there on.
Configured(place, f) == [at |-> place, field |-> f, name |-> f.name, opts |-> f.opts, typing |-> FALSE,
                         formula |-> Closed]

\* The menu keeps the column it was opened on; the settings have the one of the list.
OpenMenu == AtTable /\ \E f \in Range(cf.shown) : cf' = [cf EXCEPT !.panel = Configured("menu", f)]
OpenSettings == AtTable /\ cf' = [cf EXCEPT !.panel = [at |-> "settings", field |-> NoField]]
EditField == /\ PanelAt("settings") /\ cf.panel.field = NoField
             /\ \E f \in Range(cf.shown) : cf' = [cf EXCEPT !.panel = Configured("settings", f)]

Configures == (PanelAt("menu") \/ PanelAt("settings")) /\ cf.panel.field # NoField
Configuring == Configures /\ cf.panel.formula = Closed

\* Every commit sends the name and all the options.
Commit(p) ==
    AsksServer([cf EXCEPT !.panel = p],
               [Request("patch") EXCEPT !.id = p.field.id, !.opts = p.opts,
                                        !.name = IF p.name = "" THEN p.field.name ELSE p.name])

TypeName == /\ Configuring
            /\ \E t \in CfNames : cf' = [cf EXCEPT !.panel.name = t, !.panel.typing = TRUE]
\* Whatever is clicked next, the name is left first.
LeaveName == Configuring /\ cf.panel.typing /\ Commit([cf.panel EXCEPT !.typing = FALSE])
SetOption == /\ Configuring /\ ~cf.panel.typing
             /\ \E v \in CfSets : Commit([cf.panel EXCEPT !.opts.set = v])
EditChoices == /\ Configuring /\ ~cf.panel.typing
               /\ \E c \in CfChoices : Commit([cf.panel EXCEPT !.opts.choices = IF c \in @ THEN @ \ {c} ELSE @ \cup {c}])

\* The formula's editor covers what it was opened from.  Each text is tried out after a
\* while; whichever answer comes last is what is shown.
OpenFormula == /\ Configuring /\ ~cf.panel.typing
               /\ cf' = [cf EXCEPT !.panel.formula = [text |-> cf.panel.opts.set, due |-> TRUE,
                                                     tried |-> {}, preview |-> Null]]
InFormula == Configures /\ cf.panel.formula # Closed
TypeFormula == /\ InFormula
               /\ \E t \in CfSets : cf' = [cf EXCEPT !.ops = @ - 1, !.panel.formula.text = t, !.panel.formula.due = TRUE]
TryFormula == /\ InFormula /\ cf.panel.formula.due
              /\ LET f == [cf.panel.formula EXCEPT !.due = FALSE]
                 IN cf' = [cf EXCEPT !.panel.formula =
                              IF f.text = Null THEN [f EXCEPT !.preview = Null]
                              ELSE [f EXCEPT !.tried = @ \cup {f.text}]]
ShowPreview == /\ InFormula
               /\ \E t \in cf.panel.formula.tried, failed \in BOOLEAN :
                     cf' = [cf EXCEPT !.panel.formula.tried = @ \ {t},
                                      !.panel.formula.preview = IF failed THEN Null ELSE t]
SaveFormula == /\ InFormula
               /\ Commit([cf.panel EXCEPT !.opts.set = cf.panel.formula.text, !.formula = Closed])
CancelFormula == InFormula /\ cf' = [cf EXCEPT !.panel.formula = Closed]
Formula == OpenFormula \/ TypeFormula \/ TryFormula \/ ShowPreview \/ SaveFormula \/ CancelFormula

\* Wrapping sends the options of the column the menu was opened on, with no name.
ToggleWrap ==
    /\ PanelAt("menu") /\ Configuring /\ ~cf.panel.typing
    /\ LET f == cf.panel.field
       IN AsksServer(cf, [Request("patch") EXCEPT !.id = f.id, !.opts = [f.opts EXCEPT !.wrap = ~@]])

\* The list of the page the menu was on is what the new column will be put into.
Insert == /\ PanelAt("menu") /\ Configuring /\ ~cf.panel.typing
          /\ \E side \in {"left", "right"} :
                AsksServer([cf EXCEPT !.panel = Closed],
                           [Request("insert") EXCEPT !.ids = Ids(cf.shown), !.side = side,
                                                     !.target = cf.panel.field.id])

DeleteField == /\ Configuring /\ ~cf.panel.typing
               /\ AsksServer(cf, [Request("delete") EXCEPT !.ids = <<cf.panel.field.id>>, !.from = cf.panel.at])

BackToFields == /\ PanelAt("settings") /\ Configuring /\ ~cf.panel.typing
                /\ cf' = [cf EXCEPT !.panel = [at |-> "settings", field |-> NoField]]

OpenForm == AtTable /\ cf' = [cf EXCEPT !.panel = [at |-> "form"]]

\* A relation of the database with itself, both ways, makes two columns.
AddField == /\ PanelAt("form") /\ \A m \in cf.net : m.do # "create"
            /\ \E names \in {<<"New">>, <<"New", "Database">>} :
                  AsksServer(cf, [Request("create") EXCEPT !.names = names])

\* Dragging: a header onto a header, a property of the settings onto another.
DragField == /\ AtTable \/ (PanelAt("settings") /\ cf.panel.field = NoField)
             /\ \E f \in Range(cf.shown) : cf' = [cf EXCEPT !.drag = [do |-> "move", field |-> f]]
MovedBefore(ids, from, to) ==
    LET rest == SelectSeq(ids, LAMBDA x : x # from)
    IN InsertAt(rest, CHOOSE i \in DOMAIN rest : rest[i] = to, from)
DropField ==
    /\ cf.drag # Closed /\ cf.drag.do = "move"
    /\ \E to \in Range(Ids(cf.shown)) \ {cf.drag.field.id} :
          AsksServer([cf EXCEPT !.drag = Closed],
                     [Request("reorder") EXCEPT !.ids = MovedBefore(Ids(cf.shown), cf.drag.field.id, to)])
LetGo == cf.drag # Closed /\ cf' = [cf EXCEPT !.drag = Closed]

\* Resizing writes the width into the options the column had when the mouse went down.
StartResize == AtTable /\ \E f \in Range(cf.shown) : cf' = [cf EXCEPT !.drag = [do |-> "resize", field |-> f]]
EndResize ==
    /\ cf.drag # Closed /\ cf.drag.do = "resize"
    /\ LET f == cf.drag.field
       IN AsksServer([cf EXCEPT !.drag = Closed],
                     [Request("patch") EXCEPT !.id = f.id, !.name = f.name, !.opts = [f.opts EXCEPT !.width = "new"]])

SubItems == {f \in Range(cf.shown) : f.opts.sub}
ToggleSubItems ==
    /\ PanelAt("settings") /\ cf.panel.field = NoField
    /\ IF SubItems = {} THEN AsksServer(cf, [Request("sub") EXCEPT !.names = <<"Sub-item", "Parent item">>])
       ELSE AsksServer(cf, [Request("delete") EXCEPT !.ids = SetToSeq({f.id : f \in SubItems}), !.from = "toggle"])

FieldUser ==
    /\ cf.ops > 0
    /\ \/ OpenMenu \/ OpenSettings \/ EditField \/ BackToFields \/ OpenForm \/ ClosePanel
       \/ TypeName \/ LeaveName \/ SetOption \/ EditChoices \/ Formula
       \/ ToggleWrap \/ Insert \/ DeleteField \/ AddField
       \/ DragField \/ DropField \/ LetGo \/ StartResize \/ EndResize \/ ToggleSubItems

-------------------------------------------------------------------------------
(* The requests *)

Becomes(m, step, s) == cf' = [s EXCEPT !.net = (@ \ {m}) \cup {[m EXCEPT !.step = step]}]
Room(n) == Cardinality(cf.fields) + n <= CfMost

CreateFields(m) ==
    /\ m.do = "create" /\ m.step = "sent" /\ Room(Len(m.names))
    /\ Becomes(m, "done", FieldsCreated(cf, m.names, Plain))

EnableSubItems(m) ==
    /\ m.do = "sub" /\ m.step = "sent"
    /\ IF \E f \in cf.fields : f.opts.sub THEN Becomes(m, "failed", cf)
       ELSE Room(2) /\ Becomes(m, "done", FieldsCreated(cf, m.names, [Plain EXCEPT !.sub = TRUE]))

UpdateField(m) ==
    /\ m.do = "patch" /\ m.step = "sent"
    /\ IF \E f \in cf.fields : f.id = m.id THEN Becomes(m, "done", [cf EXCEPT !.fields = FieldUpdated(@, m)])
       ELSE Becomes(m, "failed", cf)

\* Deletions are sent together; of one that is gone already the answer is an error.
DeleteFields(m) ==
    /\ m.do = "delete" /\ m.ids # <<>>
    /\ \E i \in DOMAIN m.ids :
          LET left == {f \in cf.fields : f.id # m.ids[i]}
          IN cf' = [cf EXCEPT !.fields = left,
                              !.net = (@ \ {m}) \cup
                                 {[m EXCEPT !.ids = RemoveAt(@, i),
                                            !.step = IF left = cf.fields \/ @ = "failed" THEN "failed" ELSE "done"]}]

ReorderFields(m) ==
    /\ m.do = "reorder" /\ m.step = "sent"
    /\ Becomes(m, "done", [cf EXCEPT !.fields = FieldsReordered(@, m.ids)])

\* Inserting: a column is created, and with the answer put into the list of the click.
InsertCreates(m) ==
    /\ m.do = "insert" /\ m.step = "sent" /\ Room(1)
    /\ LET s == FieldsCreated(cf, <<"Untitled">>, Plain)
       IN cf' = [s EXCEPT !.net = (@ \ {m}) \cup {[m EXCEPT !.step = "created", !.id = s.made]}]

\* A mutant: the column is put in before its target, whichever side was asked for.
SpliceLeft(ids, target, side, id) == InsertAt(ids, CHOOSE i \in DOMAIN ids : ids[i] = target, id)

Spliced(ids, target, side, id) ==
    LET t == CHOOSE i \in DOMAIN ids : ids[i] = target
    IN InsertAt(ids, IF side = "left" THEN t ELSE t + 1, id)

\* indexOf: -1 of a target that is not there any more, and splice counts that from the end.
InsertedInto(m) ==
    IF m.target \in Range(m.ids) THEN Spliced(m.ids, m.target, m.side, m.id)
    ELSE InsertAt(m.ids, IF m.side = "right" THEN 1 ELSE Max({1, Len(m.ids)}), m.id)

InsertPlaces(m) ==
    /\ m.do = "insert" /\ m.step = "created"
    /\ Becomes(m, "done", [cf EXCEPT !.fields = FieldsReordered(@, InsertedInto(m))])

Done(m) == m.step \in {"done", "failed"} /\ (m.do = "delete" => m.ids = <<>>)

\* A deletion that is answered closes the menu that is open then, whichever column's it is;
\* a new column closes the form.
FieldAnswered(m) ==
    /\ Done(m)
    /\ LET got == [cf EXCEPT !.net = @ \ {m}]
           inMenu == m.from = "menu" /\ cf.panel # Closed /\ cf.panel.at = "menu"
           inForm == m.do = "create" /\ cf.panel # Closed /\ cf.panel.at = "form"
           inSettings == m.from = "settings" /\ cf.panel # Closed /\ cf.panel.at = "settings"
       IN cf' = CASE m.step = "failed" -> got
                  [] m.step = "done" /\ (inMenu \/ inForm) ->
                        FieldsInvalidated([got EXCEPT !.panel = Closed])
                  [] m.step = "done" /\ inSettings ->
                        FieldsInvalidated([got EXCEPT !.panel = [at |-> "settings", field |-> NoField]])
                  [] OTHER -> FieldsInvalidated(got)

FieldRequest(m) ==
    \/ CreateFields(m) \/ EnableSubItems(m) \/ UpdateField(m) \/ DeleteFields(m) \/ ReorderFields(m)
    \/ InsertCreates(m) \/ InsertPlaces(m) \/ FieldAnswered(m)

-------------------------------------------------------------------------------
FirstFields == [k \in 1..CfStart |-> [id |-> k, order |-> k, name |-> "Column", opts |-> Plain]]

CfInit == cf = [fields |-> Range(FirstFields), made |-> CfStart, shown |-> FirstFields, fetch |-> Closed,
                panel |-> Closed, drag |-> Closed, net |-> {}, sent |-> 0, ops |-> CfOps]

CfNext == FieldUser \/ ServeFields \/ FieldsArrive \/ \E m \in cf.net : FieldRequest(m)

CfSpec == CfInit /\ [][CfNext]_cf

-------------------------------------------------------------------------------
(* Properties *)

Directly(fields, a, b) ==
    \E f, g \in fields : /\ f.id = a /\ g.id = b /\ f.order < g.order
                         /\ \A h \in fields \ {f, g} : h.order < f.order \/ h.order > g.order

\* When an inserted column is put in its place it stands directly beside its target, on the
\* side asked for, whatever was moved, edited or deleted since the menu was opened; unless
\* either is gone, or there are columns the page of the click did not know (insertField).
InsertedBeside ==
    [][cf # Closed => \A m \in cf.net :
          (/\ m.do = "insert" /\ m.step = "created" /\ m \notin cf'.net
           /\ {f.id : f \in cf.fields} \subseteq Range(m.ids) \cup {m.id}
           /\ {m.target, m.id} \subseteq {f.id : f \in cf.fields}
           /\ m.target \in Range(m.ids))
          => IF m.side = "left" THEN Directly(cf'.fields, m.id, m.target)
             ELSE Directly(cf'.fields, m.target, m.id)]_cf

===============================================================================
