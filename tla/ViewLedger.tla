------------------------------ MODULE ViewLedger ------------------------------
(***************************************************************************)
(* The publish order of view-state edits (data/src/viewledger.rs).         *)
(*                                                                         *)
(* A ledger is a value [seq, entries].  An entry says "edit `edit` was     *)
(* published at `at` under number `seq`".  A read of the server remembers  *)
(* the number current when it was requested (its stamp); when it lands,    *)
(* every edit numbered above the stamp is made again on its rows.          *)
(*                                                                         *)
(* The module is a value module: operators only, no variables.  Module     *)
(* ViewState owns the one ledger and calls these operators.                *)
(***************************************************************************)
EXTENDS Integers, FiniteSets

CONSTANTS
    Items,      \* every (server, ratingKey) pair the app can show
    NoItem,     \* "no parent": the empty show_rk of a film
    ShowOf,     \* the show of a season or an episode, NoItem otherwise
    SeasonOf    \* the season of an episode, NoItem otherwise

ASSUME LibraryShape ==
    /\ NoItem \notin Items
    /\ ShowOf \in [Items -> Items \cup {NoItem}]
    /\ SeasonOf \in [Items -> Items \cup {NoItem}]

------------------------------------------------------------------------------
(* Vocabulary: viewstate::Scope, ViewAt and the two edits a press publishes. *)

Scopes == {"Leaf", "Show", "Season", "Unknown"}

At == [item : Items, scope : Scopes]

Edit == [kind : {"Watched"}, on : BOOLEAN] \cup [kind : {"LeftDeck"}, on : {FALSE}]

Watched(on) == [kind |-> "Watched", on |-> on]

LeftDeck == [kind |-> "LeftDeck", on |-> FALSE]

Entry == [seq : Nat, at : At, edit : Edit]

Ledger == [seq : Nat, entries : SUBSET Entry]

\* ViewAt::covers_parts: the item itself, or a descendant its scope reaches.
Covers(at, row) ==
    \/ row = at.item
    \/ at.scope = "Show" /\ ShowOf[row] = at.item
    \/ at.scope = "Season" /\ SeasonOf[row] = at.item

------------------------------------------------------------------------------
(* The table.                                                               *)

EmptyLedger == [seq |-> 0, entries |-> {}]

\* The newer edit answers the same question about the same item.
SameKind(e, at, edit) == e.at = at /\ e.edit.kind = edit.kind

Record(t, at, edit) ==
    [seq     |-> t.seq + 1,
     entries |-> {e \in t.entries : ~SameKind(e, at, edit)}
                     \cup {[seq |-> t.seq + 1, at |-> at, edit |-> edit]}]

\* The number Record hands back to the caller.
RecordedSeq(t) == t.seq + 1

\* Fault: a taken write keeps the number of its press.
LandedKeepsNumber(t, s) == t

\* The server has taken the write recorded at s: the entry, if it is still
\* there, moves to a fresh number.
Landed(t, s) ==
    IF \E e \in t.entries : e.seq = s
    THEN [seq     |-> t.seq + 1,
          entries |-> {IF e.seq = s THEN [e EXCEPT !.seq = t.seq + 1] ELSE e :
                          e \in t.entries}]
    ELSE t

\* The writes recorded at the numbers S were refused or never left.
Retire(t, S) == [t EXCEPT !.entries = {e \in t.entries : e.seq \notin S}]

ResetLedger(t) == [seq |-> t.seq + 1, entries |-> {}]

Stamp(t) == t.seq

Since(t, stamp) == {e \in t.entries : e.seq > stamp}

\* The edits of kind `kind` a read stamped `stamp` must make again on `row`.
Replayed(t, stamp, row, kind) ==
    {e \in Since(t, stamp) : e.edit.kind = kind /\ Covers(e.at, row)}

\* Made again oldest first, so the highest number decides the row.
Patch(t, stamp, row, body) ==
    LET E == Replayed(t, stamp, row, "Watched")
    IN  IF E = {} THEN body
        ELSE (CHOOSE e \in E : \A f \in E : f.seq <= e.seq).edit.on

------------------------------------------------------------------------------
(* What every operation keeps: numbers are unique and already issued.       *)

WellNumbered(t) ==
    /\ \A e \in t.entries : 0 < e.seq /\ e.seq <= t.seq
    /\ \A e, f \in t.entries : e.seq = f.seq => e = f
==============================================================================
