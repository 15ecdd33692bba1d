------------------------------- MODULE Personal -------------------------------
(***************************************************************************)
(* What people keep for themselves beside their accounts: pins, tags with  *)
(* their links, and settings.  dp-rest pins.rs, tags.rs and settings.rs    *)
(* over store/pins.rs, store/tags.rs and store/settings.rs.                *)
(*                                                                         *)
(* Every request acts for its actor.  A tag belongs to a person or to an   *)
(* org (a team's tag is seen through its org).  There is one setting.      *)
(***************************************************************************)
EXTENDS Accounts

CONSTANTS
    TagNames,
    Values,         \* of a setting
    Targets,        \* what pins and tags point at
    PinCap,         \* PIN_CAP
    Tags

ASSUME PersonalAssumption == PinCap \in Nat \ {0} /\ IsFiniteSet(Targets)

VARIABLES
    pin,        \* dp_user_pins: <<user, target>> -> position
    tag,        \* dp_tags
    link,       \* dp_tag_links, each with the request that made it
    setting     \* dp_user_settings: user -> value

personal == <<pin, tag, link, setting>>
allVars  == <<accounts, personal, pc, form>>

PinsOf(a)   == {x \in Targets : <<a, x>> \in DOMAIN pin}
LinksOf(t)  == {l \in link : l.tag = t}
CanSee(a, scope) == scope = a \/ <<a, scope>> \in DOMAIN home
NameIsFree(t, scope, n) ==
    \A o \in DOMAIN tag \ {t} : ~(tag[o].scope = scope /\ tag[o].name = n)

-----------------------------------------------------------------------------
(* Pins *)

AskPin(q) ==
    \E a \in DOMAIN user :
       \/ \E x \in Targets :
             \/ Ask(q, [verb |-> "pin", actor |-> a, target |-> x, position |-> 0])
             \/ Ask(q, [verb |-> "unpin", actor |-> a, target |-> x])
       \/ \E s \in SetToSeqs(PinsOf(a)) :
             Ask(q, [verb |-> "reorder", actor |-> a, order |-> s])

\* POST /me/pins: the cap, and the place at the end of the list.
ReadPins(q) ==
    LET n == Cardinality(PinsOf(form[q].actor)) IN
    /\ Is(q, "pin", "admitted")
    /\ IF n >= PinCap THEN End(q, "refused")
                      ELSE Go(q, "placed", [form[q] EXCEPT !.position = n])
    /\ UNCHANGED <<accounts, personal>>

\* The store counts again, in the transaction that inserts.
CountPins(q) ==
    /\ Is(q, "pin", "placed")
    /\ IF Cardinality(PinsOf(form[q].actor)) >= PinCap THEN End(q, "refused")
                                                       ELSE Goto(q, "counted")
    /\ UNCHANGED <<accounts, personal>>

InsertPin(q) ==
    LET k == <<form[q].actor, form[q].target>> IN
    /\ Is(q, "pin", "counted")
    /\ IF k \in DOMAIN pin
         THEN End(q, "refused") /\ UNCHANGED pin
         ELSE pin' = With(pin, k, form[q].position) /\ End(q, "done")
    /\ UNCHANGED <<accounts, tag, link, setting>>

\* DELETE /me/pins/{kind}/{id}: the places of the others stay.
RemovePin(q) ==
    LET k == <<form[q].actor, form[q].target>> IN
    /\ Is(q, "unpin", "admitted")
    /\ IF k \in DOMAIN pin
         THEN pin' = [i \in DOMAIN pin \ {k} |-> pin[i]] /\ End(q, "done")
         ELSE End(q, "missing") /\ UNCHANGED pin
    /\ UNCHANGED <<accounts, tag, link, setting>>

\* PUT /me/pins/order: the handler's check, then the store's, then the rewrite.
CheckOrder(q) ==
    LET same == ToSet(form[q].order) = PinsOf(form[q].actor) IN
    /\ form[q].verb = "reorder"
    /\ \/ pc[q] = "admitted" /\ IF same THEN Goto(q, "matched") ELSE End(q, "refused")
       \/ pc[q] = "matched"  /\ IF same THEN Goto(q, "checked") ELSE End(q, "refused")
    /\ UNCHANGED <<accounts, personal>>

\* One UPDATE a row; a row that has gone since the check is no error.
RewriteOrder(q) ==
    LET s == form[q].order
        place(x) == (CHOOSE i \in DOMAIN s : s[i] = x) - 1
    IN  /\ Is(q, "reorder", "checked")
        /\ pin' = [k \in DOMAIN pin |->
                      IF k[1] = form[q].actor /\ k[2] \in ToSet(s) THEN place(k[2])
                                                                   ELSE pin[k]]
        /\ End(q, "done")
        /\ UNCHANGED <<accounts, tag, link, setting>>

-----------------------------------------------------------------------------
(* Tags *)

\* A body of PATCH names the tag anew, or archives it or takes it back.
TagBodies == {[name |-> n, archived |-> None] : n \in TagNames}
             \cup {[name |-> None, archived |-> b] : b \in BOOLEAN}

AskTag(q) ==
    \E a \in DOMAIN user :
       \/ \E s \in Orgs \cup {a}, n \in TagNames :
             Ask(q, [verb |-> "tag", actor |-> a, scope |-> s, name |-> n])
       \/ \E t \in DOMAIN tag :
             \/ \E b \in TagBodies :
                   Ask(q, [verb |-> "retag", actor |-> a, tag |-> t, body |-> b])
             \/ \E S \in SUBSET Targets \ {{}}, v \in {"link", "unlink"} :
                   Ask(q, [verb |-> v, actor |-> a, tag |-> t, items |-> S, rows |-> {}])

\* POST /tags, for the members of its scope ...
CheckScope(q) ==
    /\ Is(q, "tag", "admitted")
    /\ IF CanSee(form[q].actor, form[q].scope) THEN Goto(q, "checked") ELSE End(q, "denied")
    /\ UNCHANGED <<accounts, personal>>

\* ... whose tags have different names, the archived ones included.
CreateTag(q, t) ==
    LET f == form[q] IN
    /\ Is(q, "tag", "checked") /\ t \notin DOMAIN tag
    /\ IF NameIsFree(t, f.scope, f.name)
         THEN /\ tag' = With(tag, t, [scope |-> f.scope, name |-> f.name, archived |-> FALSE])
              /\ End(q, "done")
         ELSE End(q, "refused") /\ UNCHANGED tag
    /\ UNCHANGED <<accounts, pin, link, setting>>

\* PATCH, POST and DELETE on a tag read it, and its links, first.  A tag that is
\* archived already is left as it is; links that are there already, and those to
\* remove that are not, are errors of the whole batch.
ReadTag(q) ==
    LET f    == form[q]
        has  == {l.target : l \in LinksOf(f.tag)}
        rows == {l \in LinksOf(f.tag) : l.target \in f.items}
        noop == f.body.archived = TRUE /\ tag[f.tag].archived
    IN  /\ pc[q] = "admitted" /\ f.verb \in {"retag", "link", "unlink"}
        /\ IF ~CanSee(f.actor, tag[f.tag].scope) THEN End(q, "missing")
             ELSE \/ f.verb = "retag" /\ Go(q, "read",
                        IF noop THEN [f EXCEPT !.body.archived = None] ELSE f)
                  \/ f.verb = "link" /\ IF f.items \cap has = {} THEN Goto(q, "read")
                                                                 ELSE End(q, "refused")
                  \/ f.verb = "unlink" /\ IF f.items \subseteq has
                                            THEN Go(q, "read", [f EXCEPT !.rows = rows])
                                            ELSE End(q, "refused")
        /\ UNCHANGED <<accounts, personal>>

UpdateTag(q) ==
    LET f   == form[q]
        new == [tag[f.tag] EXCEPT !.name     = IF f.body.name = None THEN @ ELSE f.body.name,
                                  !.archived = IF f.body.archived = None THEN @
                                               ELSE f.body.archived]
    IN  /\ Is(q, "retag", "read")
        /\ IF NameIsFree(f.tag, new.scope, new.name)
             THEN tag' = [tag EXCEPT ![f.tag] = new] /\ End(q, "done")
             ELSE End(q, "refused") /\ UNCHANGED tag
        /\ UNCHANGED <<accounts, pin, link, setting>>

\* Unique in (tag, target): a batch that meets one goes back whole.
AddLinks(q) ==
    LET f == form[q] IN
    /\ Is(q, "link", "read")
    /\ IF \E l \in LinksOf(f.tag) : l.target \in f.items
         THEN End(q, "refused") /\ UNCHANGED link
         ELSE /\ link' = link \cup {[tag |-> f.tag, target |-> x, by |-> q] : x \in f.items}
              /\ End(q, "done")
    /\ UNCHANGED <<accounts, pin, tag, setting>>

\* The rows are counted, and then deleted.
CountLinks(q) ==
    /\ Is(q, "unlink", "read")
    /\ IF form[q].rows \subseteq link THEN Goto(q, "counted") ELSE End(q, "refused")
    /\ UNCHANGED <<accounts, personal>>

RemoveLinks(q) ==
    /\ Is(q, "unlink", "counted")
    /\ link' = link \ form[q].rows
    /\ End(q, "done")
    /\ UNCHANGED <<accounts, pin, tag, setting>>

-----------------------------------------------------------------------------
(* Settings *)

\* PUT and DELETE /me/settings/{key}
AskSetting(q) ==
    \E a \in DOMAIN user, x \in Values \cup {None} :
       Ask(q, [verb |-> "setting", actor |-> a, value |-> x])

WriteSetting(q) ==
    LET a == form[q].actor IN
    /\ Is(q, "setting", "admitted")
    /\ IF form[q].value # None
         THEN setting' = With(setting, a, form[q].value) /\ End(q, "done")
         ELSE /\ setting' = [u \in DOMAIN setting \ {a} |-> setting[u]]
              /\ End(q, IF a \in DOMAIN setting THEN "done" ELSE "missing")
    /\ UNCHANGED <<accounts, pin, tag, link>>

-----------------------------------------------------------------------------
Keeps(q) ==
    \/ ReadPins(q) \/ CountPins(q) \/ InsertPin(q) \/ RemovePin(q)
    \/ CheckOrder(q) \/ RewriteOrder(q)
    \/ CheckScope(q) \/ ReadTag(q) \/ UpdateTag(q) \/ AddLinks(q)
    \/ CountLinks(q) \/ RemoveLinks(q) \/ (\E t \in Tags : CreateTag(q, t))
    \/ WriteSetting(q)

Next == \/ AccountsNext /\ UNCHANGED personal
        \/ \E q \in Idle : /\ AskPin(q) \/ AskTag(q) \/ AskSetting(q)
                           /\ UNCHANGED <<accounts, personal>>
        \/ \E q \in Busy : Keeps(q)

-----------------------------------------------------------------------------
\* The types of the rows.  A tag points at a thing at most once and no scope has
\* two tags of one name, whatever batches and renames race; nobody has two homes.
TypeOK ==
    /\ AccountsTypeOK
    /\ \A k \in DOMAIN pin : k \in People \X Targets /\ pin[k] \in Nat
    /\ DOMAIN tag \subseteq Tags
    /\ \A t \in DOMAIN tag :
          tag[t] \in [scope : Orgs \cup People, name : TagNames, archived : BOOLEAN]
    /\ \A l \in link : l.tag \in DOMAIN tag /\ l.target \in Targets
    /\ DOMAIN setting \subseteq People
    /\ \A t \in DOMAIN tag : NameIsFree(t, tag[t].scope, tag[t].name)
    /\ \A l, m \in link : l.tag = m.tag /\ l.target = m.target => l = m
=============================================================================
