------------------------------ MODULE Manuscript ------------------------------
(***************************************************************************)
(* Questions to a language model about a buffer, the manuscript, that the  *)
(* user goes on editing.  A scoped edit encloses the selection in markers  *)
(* of its own and sends the buffer; the answer replaces whatever is found  *)
(* between the markers by then.  A voyage rewrites the whole manuscript    *)
(* (evolve) or judges it (reflect), and keeps its state as text in a       *)
(* second buffer, the directive.  A review is shown in a third.  Questions *)
(* run as background work (ThreadExecution); their answers are given on    *)
(* the main thread, in any order.                                          *)
(*                                                                         *)
(* A buffer is a sequence of tokens: pieces of text and markers.  Line     *)
(* breaks are left out.                                                    *)
(***************************************************************************)
EXTENDS Integers, Sequences, SequencesExt, FiniteSetsExt

CONSTANTS
    Questions,  \* the interactions of a behaviour, named by their ids
    Pieces,     \* the pieces of text the manuscript begins with
    MaxEdits    \* how often the user edits a buffer

ASSUME EditsAssumption  == MaxEdits \in Nat
ASSUME PiecesAssumption == IsFiniteSet(Pieces)

VARIABLES
    doc,        \* the manuscript's tokens
    gone,       \* has the manuscript's buffer been wiped?
    directive,  \* the directive: what its text is, and the policy, compass and
                \* bearing it was last written with
    review,     \* the question whose answer the review buffer shows, or none
    kind,       \* what each question is: "none" before it is asked
    phase,      \* of each question: "new", "waiting" or "ended"
    kernel,     \* FairyKernel.interactions
    sent,       \* the manuscript as the waiting questions were sent
    edits,      \* the user's edits so far
    wanted,     \* history: the policy the user set last
    scope,      \* history: the tokens each question was about
    deleted,    \* history: the tokens the user deleted
    strayed     \* history: what happened that may leave markers behind

history == <<wanted, scope, deleted, strayed>>
asking  == <<kind, phase, kernel, sent>>
vars    == <<doc, gone, directive, review, asking, edits, history>>

Kinds    == {"edit", "evolve", "reflect", "review"}
NoReview == <<>>

Token(k, x) == [kind |-> k, of |-> x]
Begin(q)    == Token("begin", q)
End(q)      == Token("end", q)
Answer(q)   == Token("answer", q)
Markers     == {Begin(q) : q \in Questions} \cup {End(q) : q \in Questions}

\* The tokens of a text that are in a set, in their order.
Those(d, S) ==
    LET upTo[n \in 0 .. Len(d)] ==
            IF n = 0 THEN <<>>
            ELSE IF d[n] \in S THEN Append(upTo[n - 1], d[n]) ELSE upTo[n - 1]
    IN  upTo[Len(d)]

Tokens == Markers \cup {Answer(q) : q \in Questions}
                  \cup {Token("text", p) : p \in Pieces}
                  \cup {Token("typed", n) : n \in 1 .. MaxEdits}

\* VoyageState.initial.
InitialState == [text |-> "state", policy |-> 0, compass |-> NoReview, bearing |-> NoReview]

Init ==
    /\ doc       = SetToSeq({Token("text", p) : p \in Pieces})
    /\ gone      = FALSE
    /\ directive = InitialState
    /\ review    = NoReview
    /\ kind      = [q \in Questions |-> "none"]
    /\ phase     = [q \in Questions |-> "new"]
    /\ kernel    = {}
    /\ sent      = [q \in Questions |-> <<>>]
    /\ edits     = 0
    /\ wanted    = 0
    /\ scope     = [q \in Questions |-> {}]
    /\ deleted   = {}
    /\ strayed   = {}

-----------------------------------------------------------------------------
(***************************************************************************)
(* The user edits the manuscript and the directive meanwhile.              *)
(***************************************************************************)
MayEdit == edits < MaxEdits /\ edits' = edits + 1

Type(k) ==
    /\ MayEdit /\ ~gone
    /\ k \in 0 .. Len(doc)
    /\ doc' = InsertAt(doc, k + 1, Token("typed", edits'))
    /\ UNCHANGED <<gone, directive, review, asking, history>>

Delete(k) ==
    /\ MayEdit /\ ~gone
    /\ k \in 1 .. Len(doc)
    /\ doc'     = RemoveAt(doc, k)
    /\ deleted' = deleted \cup {doc[k]}
    /\ strayed' = IF doc[k] \in Markers THEN strayed \cup {"cut"} ELSE strayed
    /\ UNCHANGED <<gone, directive, review, asking, wanted, scope>>

Wipe ==
    /\ ~gone
    /\ gone' = TRUE
    /\ UNCHANGED <<doc, directive, review, asking, edits, history>>

SetPolicy ==
    /\ MayEdit
    /\ directive.text = "state"
    /\ wanted'    = wanted + 1
    /\ directive' = [directive EXCEPT !.policy = wanted']
    /\ UNCHANGED <<doc, gone, review, asking, scope, deleted, strayed>>

\* The directive's text is no longer a state, or one again.  A value in the
\* place of a table is worse: reading it raises.
Garble ==
    /\ MayEdit
    /\ \E text \in {"state", "other", "value"} \ {directive.text} :
          directive' = [directive EXCEPT !.text = text]
    /\ UNCHANGED <<doc, gone, review, asking, history>>

\* _complete_states reads the directive when it is needed: an unreadable one
\* is as good as none.
CurrentState == IF directive.text = "state" THEN directive ELSE InitialState
Raises       == directive.text = "value"

-----------------------------------------------------------------------------
(***************************************************************************)
(* Asking.                                                                 *)
(***************************************************************************)
\* The work is started, and then the interaction is filed in the kernel.
Create(q, k, d) ==
    /\ kind'   = [kind EXCEPT ![q] = k]
    /\ phase'  = [phase EXCEPT ![q] = "waiting"]
    /\ sent'   = [sent EXCEPT ![q] = d]
    /\ kernel' = kernel \cup {q}

Enclose(q, from, to) ==
    SubSeq(doc, 1, from - 1) \o <<Begin(q)>> \o SubSeq(doc, from, to)
        \o <<End(q)>> \o SubSeq(doc, to + 1, Len(doc))

\* Does the selection hold one marker of another question and not the other?
Crosses(selected) ==
    \E r \in Questions : (Begin(r) \in selected) # (End(r) \in selected)

\* The selection is enclosed, and the buffer sent as it is then.
AskEdit(q, from, to) ==
    /\ phase[q] = "new" /\ ~gone
    /\ from \in 1 .. Len(doc) /\ to \in from .. Len(doc)
    /\ LET selected == ToSet(SubSeq(doc, from, to))
       IN  /\ scope'   = [scope EXCEPT ![q] = selected]
           /\ strayed' = IF Crosses(selected) THEN strayed \cup {"crossed"} ELSE strayed
    /\ doc' = Enclose(q, from, to)
    /\ Create(q, "edit", doc')
    /\ UNCHANGED <<gone, directive, review, edits, wanted, deleted>>

\* Making the request fails, after the markers were inserted.
RefuseEdit(q, from, to) ==
    /\ phase[q] = "new" /\ ~gone
    /\ from \in 1 .. Len(doc) /\ to \in from .. Len(doc)
    /\ doc'     = Enclose(q, from, to)
    /\ phase'   = [phase EXCEPT ![q] = "ended"]
    /\ strayed' = strayed \cup {"refused"}
    /\ UNCHANGED <<gone, directive, review, kind, kernel, sent, edits, wanted,
                   scope, deleted>>

AskWhole(q, k) ==
    /\ phase[q] = "new" /\ ~gone
    /\ k = "review" \/ (k \in {"evolve", "reflect"} /\ ~Raises)
    /\ Create(q, k, doc)
    /\ scope' = [scope EXCEPT ![q] = IF k = "evolve" THEN ToSet(doc) ELSE {}]
    /\ UNCHANGED <<doc, gone, directive, review, edits, wanted, deleted, strayed>>

-----------------------------------------------------------------------------
(***************************************************************************)
(* Answers.                                                                *)
(***************************************************************************)
\* What the model may answer to an edit: new text, alone or inside the
\* question's markers; a text with one marker only; a text that keeps the
\* markers of others it was shown.
EditOutputs(q) ==
    LET foreign == Those(sent[q], Markers \ {Begin(q), End(q)})
    IN  {<<Answer(q)>>,
         <<Answer(q), Begin(q), Answer(q), End(q), Answer(q)>>,
         <<Begin(q), Answer(q)>>,
         <<Answer(q)>> \o foreign}

Stray(q, output) ==
    strayed \cup (IF <<Begin(q), Answer(q)>> = output THEN {"half"} ELSE {})
            \cup (IF \E t \in Markers \ {Begin(q), End(q)} : t \in ToSet(output)
                  THEN {"kept"} ELSE {})

Places(d, t) == {k \in 1 .. Len(d) : d[k] = t}

\* _recover_edit_target: what is between the first begin and the last end.
Recover(q, output) ==
    LET begins == Places(output, Begin(q))
        ends   == Places(output, End(q))
    IN  IF begins # {} /\ ends # {} /\ Min(begins) < Max(ends)
        THEN SubSeq(output, Min(begins) + 1, Max(ends) - 1)
        ELSE output

\* Slip: without an end, everything after the beginning is replaced.
Override_Unchecked(q, output) ==
    LET begins == Places(doc, Begin(q))
        ends   == Places(doc, End(q)) \cup {Len(doc)}
    IN  IF begins = {} THEN doc
        ELSE SubSeq(doc, 1, Min(begins) - 1) \o Recover(q, output)
                \o SubSeq(doc, Min(ends) + 1, Len(doc))

\* Slip: the markers are left where they are.
Override_Inside(q, output) ==
    LET begins == Places(doc, Begin(q))
        ends   == Places(doc, End(q))
    IN  IF begins = {} \/ ends = {} THEN doc
        ELSE SubSeq(doc, 1, Min(begins)) \o Recover(q, output)
                \o SubSeq(doc, Min(ends), Len(doc))

\* override_target: nothing is done when a marker is gone.
Override(q, output) ==
    LET begins == Places(doc, Begin(q))
        ends   == Places(doc, End(q))
        \* CharacterRange makes an empty range of one that ends before it begins.
        from   == Min({Min(begins), Min(ends) + 1})
    IN  IF begins = {} \/ ends = {} THEN doc
        ELSE SubSeq(doc, 1, from - 1) \o Recover(q, output)
                \o SubSeq(doc, Min(ends) + 1, Len(doc))

\* The end is fired, whatever the callbacks did, and the kernel forgets.
Conclude(q) ==
    /\ phase'  = [phase EXCEPT ![q] = "ended"]
    /\ kernel' = kernel \ {q}
    /\ sent'   = [sent EXCEPT ![q] = <<>>]
    /\ UNCHANGED kind

\* In a buffer that was wiped the callback raises, and nothing is done.
EditAnswered(q) ==
    /\ phase[q] = "waiting" /\ kind[q] = "edit"
    /\ \E output \in EditOutputs(q) :
          IF gone THEN UNCHANGED <<doc, strayed>>
          ELSE /\ doc'     = Override(q, output)
               /\ strayed' = Stray(q, output)
    /\ Conclude(q)
    /\ UNCHANGED <<gone, directive, review, edits, wanted, scope, deleted>>

\* Slip: the state is written back as it was when the question was asked.
EvolveAnswered_Stale(q) ==
    /\ phase[q] = "waiting" /\ kind[q] = "evolve"
    /\ directive' = [InitialState EXCEPT !.compass = q]
    /\ doc'     = <<Answer(q)>>
    /\ strayed' = strayed
    /\ wanted'  = wanted
    /\ Conclude(q)
    /\ UNCHANGED <<gone, review, edits, scope, deleted>>

\* The directive is written first, then the manuscript, whatever the user has
\* made of it meanwhile: the model may have kept markers it was shown.
EvolveAnswered(q) ==
    /\ phase[q] = "waiting" /\ kind[q] = "evolve"
    /\ IF Raises THEN UNCHANGED <<doc, directive, wanted, strayed>>
       ELSE /\ directive' = [CurrentState EXCEPT !.compass = q]
            /\ wanted'    = IF directive.text = "state" THEN wanted ELSE 0
            /\ \E manuscript \in {<<Answer(q)>>, <<Answer(q)>> \o Those(sent[q], Markers)} :
                  IF gone THEN UNCHANGED <<doc, strayed>>
                  ELSE /\ doc'     = manuscript
                       /\ strayed' = Stray(q, manuscript)
    /\ Conclude(q)
    /\ UNCHANGED <<gone, review, edits, scope, deleted>>

ReflectAnswered(q) ==
    /\ phase[q] = "waiting" /\ kind[q] = "reflect"
    /\ IF Raises THEN UNCHANGED <<directive, wanted>>
       ELSE /\ directive' = [CurrentState EXCEPT !.compass = q, !.bearing = q]
            /\ wanted'    = IF directive.text = "state" THEN wanted ELSE 0
    /\ Conclude(q)
    /\ UNCHANGED <<doc, gone, review, edits, scope, deleted, strayed>>

ReviewAnswered(q) ==
    /\ phase[q] = "waiting" /\ kind[q] = "review"
    /\ review' = q
    /\ Conclude(q)
    /\ UNCHANGED <<doc, gone, directive, edits, history>>

\* Slip: an error is reported and the question not concluded.
Fails_Unforgotten(q) ==
    /\ phase[q] = "waiting"
    /\ phase' = [phase EXCEPT ![q] = "ended"]
    /\ doc'   = RemoveFirst(RemoveFirst(doc, Begin(q)), End(q))
    /\ UNCHANGED <<gone, directive, review, kind, kernel, sent, edits, history>>

\* The question fails: revert_markers takes out the first of each marker.
Fails(q) ==
    /\ phase[q] = "waiting"
    /\ doc' = IF gone \/ kind[q] # "edit" THEN doc
              ELSE RemoveFirst(RemoveFirst(doc, Begin(q)), End(q))
    /\ Conclude(q)
    /\ UNCHANGED <<gone, directive, review, edits, history>>

-----------------------------------------------------------------------------
Answered(q) ==
    EditAnswered(q) \/ EvolveAnswered(q) \/ ReflectAnswered(q) \/ ReviewAnswered(q)

Next ==
    \/ \E k \in 0 .. Len(doc) : Type(k) \/ Delete(k)
    \/ Wipe \/ SetPolicy \/ Garble
    \/ \E q \in Questions :
          \/ \E from, to \in 1 .. Len(doc) : AskEdit(q, from, to) \/ RefuseEdit(q, from, to)
          \/ \E k \in Kinds : AskWhole(q, k)
          \/ Answered(q) \/ Fails(q)

\* Background work comes to an end and its callbacks are called.
Fairness == \A q \in Questions : WF_vars(Answered(q) \/ Fails(q))

Spec     == Init /\ [][Next]_vars
FairSpec == Spec /\ Fairness

-----------------------------------------------------------------------------
(***************************************************************************)
(* Properties.                                                             *)
(***************************************************************************)
TypeOK ==
    /\ doc \in Seq(Tokens)
    /\ gone \in BOOLEAN
    /\ directive \in [text : {"state", "other", "value"}, policy : 0 .. MaxEdits,
                      compass : Questions \cup {NoReview}, bearing : Questions \cup {NoReview}]
    /\ review \in Questions \cup {NoReview}
    /\ kind \in [Questions -> Kinds \cup {"none"}]
    /\ phase \in [Questions -> {"new", "waiting", "ended"}]
    /\ kernel \subseteq {q \in Questions : phase[q] = "waiting"}
    /\ sent \in [Questions -> Seq(Tokens)]
    /\ edits \in 0 .. MaxEdits /\ wanted \in 0 .. edits
    /\ scope \in [Questions -> SUBSET Tokens] /\ deleted \subseteq Tokens
    /\ strayed \subseteq {"cut", "crossed", "refused", "half", "kept"}

\* Once a question has ended its markers are gone from the manuscript, however
\* its scope lies to those of others and in whatever order they end: as long as
\* the user cuts no marker and selects no half scope, and the model writes none.
MarkersGo ==
    strayed = {} /\ ~gone =>
        \A q \in Questions :
            phase[q] = "ended" => {Begin(q), End(q)} \cap ToSet(doc) = {}

\* A piece of the manuscript is lost only to its user, or to a question that was
\* asked about it, whatever the user cuts and selects; unless the model put back
\* a marker of another question, whose scope may then begin or end elsewhere.
LostOnlyInScope ==
    "kept" \in strayed
    \/ \A p \in Pieces :
          \/ Token("text", p) \in ToSet(doc) \cup deleted
          \/ \E q \in Questions : phase[q] = "ended" /\ Token("text", p) \in scope[q]

\* Answers never undo what the user set in the directive since the question: the
\* policy is the user's, unless an answer came while it could not be read.
PolicyIsTheUsers == directive.policy = wanted

\* Whatever ends when, answers spare what the user did.
AnswersSpareTheUser == LostOnlyInScope /\ PolicyIsTheUsers

\* Every question ends, and the kernel forgets it.
QuestionsAreForgotten ==
    \A q \in Questions : phase[q] = "waiting" ~> (phase[q] = "ended" /\ q \notin kernel)

=============================================================================
