---------------------------- MODULE RetentionPage ----------------------------
(***************************************************************************)
(* The Settings page (packages/web/src/settings/settings-page.tsx and      *)
(* settings.ts) with the routes behind it (packages/api/src/               *)
(* settings-routes.ts): retention is typed, reviewed and saved in one tab  *)
(* while another tab saves too, rows grow old, and answers come late or    *)
(* not at all.  A duration is a number of ticks; which levels the          *)
(* environment has locked, and sign-in, are left to RuleSource and SignIn. *)
(***************************************************************************)
EXTENDS Integers, Sequences, FiniteSets

CONSTANTS
  None,
  N,                   \* levels, numbered from the finest, of raw readings
  Durations,           \* what may be typed
  LookBack,            \* how far the rules in force look back into raw readings
  MaxRequests, MaxOthers, MaxAge   \* bounds: of this tab, of other tabs, of rows

RetentionPageAssumption ==
  /\ N \in Nat \ {0} /\ Durations \subseteq Nat \ {0} /\ LookBack \in Nat
  /\ MaxRequests \in Nat /\ MaxOthers \in Nat /\ MaxAge \in Nat

VARIABLES
  retention,           \* the server: what is in force, by level
  oldest,              \* and the age of the oldest row of each level
  body, draft,         \* the page: what it was told last, and what is typed
  review, confirmed,
  requests,            \* of this tab, in the order they were made
  others,              \* bound: saves of other tabs
  typed,               \* history: the levels typed into since the page was told
  harm                 \* history: what saves did that nobody asked for

server == <<retention, oldest>>
page == <<body, draft, review, confirmed, typed>>
vars == <<server, page, requests, others, harm>>

LevelNumbers == 1 .. N
Policies == [LevelNumbers -> Durations]
Proposals == [LevelNumbers -> Durations \cup {None}]

(***************************************************************************)
(* The server: validateRetention, previewDeletion, and the two routes.     *)
(***************************************************************************)
InOrder(levels) == \A l \in LevelNumbers \ {1} : levels[l - 1] <= levels[l]
Valid(levels) == InOrder(levels) /\ levels[1] >= LookBack

(* Fields left out keep their value. *)
Proposed(proposal) == [l \in LevelNumbers |-> IF proposal[l] = None THEN retention[l] ELSE proposal[l]]

(* The levels of which rows would go that are kept now. *)
Deletions(levels) == {l \in LevelNumbers : levels[l] < retention[l] /\ oldest[l] > levels[l]}

Answer(is, levels, deletions) == [is |-> is, levels |-> levels, deletions |-> deletions]
Refused == Answer("errors", None, {})

(* What a save does: the levels it changes, of which rows go. *)
Harm(r) ==
  LET levels == Proposed(r.proposal)
      gone == Deletions(levels)
  IN {<<"put back", l>> : l \in {k \in LevelNumbers \ r.typed : levels[k] # retention[k]}}
     \cup {<<"not confirmed", l>> : l \in IF r.ticked THEN {} ELSE gone}
     \cup {<<"not reviewed", l>> : l \in {k \in gone : levels[k] < r.reviewed[k]}}

Makes(i, answer) == requests' = [requests EXCEPT ![i].answer = answer]

(* POST /api/settings/preview. *)
PreviewServed(i) ==
  /\ requests[i].is = "preview" /\ requests[i].answer = None
  /\ LET levels == Proposed(requests[i].proposal) IN
     Makes(i, IF Valid(levels) THEN Answer("preview", levels, Deletions(levels)) ELSE Refused)
  /\ UNCHANGED <<server, page, others, harm>>

MustConfirm(r) == Deletions(Proposed(r.proposal)) # {} /\ ~r.confirmDeletion

(* PUT /api/settings. *)
SaveServed(i) ==
  /\ requests[i].is = "save" /\ requests[i].answer = None
  /\ LET r == requests[i]
         levels == Proposed(r.proposal) IN
     IF Valid(levels) /\ ~MustConfirm(r)
     THEN /\ retention' = levels /\ harm' = harm \cup Harm(r)
          /\ Makes(i, Answer("saved", levels, {}))
     ELSE /\ Makes(i, IF Valid(levels) THEN Answer("409", levels, Deletions(levels)) ELSE Refused)
          /\ UNCHANGED <<retention, harm>>
  /\ UNCHANGED <<oldest, page, others>>

(* Another tab, or another operator. *)
OthersSave ==
  /\ others < MaxOthers /\ others' = others + 1
  /\ \E levels \in Policies : Valid(levels) /\ levels # retention /\ retention' = levels
  /\ UNCHANGED <<oldest, page, requests, harm>>

(* Time passes, and housekeeping prunes. *)
RowsAge ==
  /\ \E l \in LevelNumbers : oldest[l] < MaxAge
  /\ oldest' = [l \in LevelNumbers |-> IF oldest[l] < MaxAge THEN oldest[l] + 1 ELSE MaxAge]
  /\ UNCHANGED <<retention, page, requests, others, harm>>
Prunes ==
  /\ \E l \in LevelNumbers : oldest[l] > retention[l]
  /\ oldest' = [l \in LevelNumbers |-> IF oldest[l] > retention[l] THEN retention[l] ELSE oldest[l]]
  /\ UNCHANGED <<retention, page, requests, others, harm>>

(***************************************************************************)
(* The page.                                                               *)
(***************************************************************************)
Edited == {l \in LevelNumbers : draft[l] # body[l]}
NoReview == [is |-> "none", of |-> body, deletions |-> {}]

(* describeChange of the levels edited: some of them lose rows. *)
Deletes == review.is = "ready" /\ Edited \cap review.deletions # {}

(* edit *)
Types(l, value) ==
  /\ draft[l] # value
  /\ draft' = [draft EXCEPT ![l] = value] /\ typed' = typed \cup {l}
  /\ review' = NoReview /\ confirmed' = FALSE
  /\ UNCHANGED <<server, body, requests, others, harm>>

(* Only the levels edited are sent: the others are as old as the page. *)
(* Mutant: all of them are. *)
WholeDraft == draft
Proposal == [l \in LevelNumbers |-> IF l \in Edited THEN draft[l] ELSE None]

Sends(is) ==
  /\ Len(requests) < MaxRequests
  /\ requests' = Append(requests,
       [is |-> is, proposal |-> Proposal, confirmDeletion |-> Deletes,
        typed |-> typed, ticked |-> confirmed, reviewed |-> review.of, answer |-> None])

ReviewChanges ==
  /\ Edited # {} /\ Sends("preview")
  /\ UNCHANGED <<server, page, others, harm>>

(* The box is there when rows go; Save waits for it. *)
Confirms ==
  /\ Deletes /\ confirmed' = ~confirmed
  /\ UNCHANGED <<server, body, draft, review, typed, requests, others, harm>>

SaveEnabled == review.is = "ready" /\ (Deletes => confirmed)
Save ==
  /\ SaveEnabled /\ Sends("save")
  /\ UNCHANGED <<server, page, others, harm>>

(* An answer is read whatever was typed since it was asked for. *)
Reads(i) ==
  /\ requests[i].answer # None /\ requests[i].is # "done"
  /\ requests' = [requests EXCEPT ![i] = [@ EXCEPT !.is = "done"]]
  /\ LET answer == requests[i].answer IN
     IF answer.is = "saved"
     THEN /\ body' = answer.levels /\ draft' = answer.levels /\ typed' = {}
          /\ review' = [is |-> "none", of |-> answer.levels, deletions |-> {}]
          /\ confirmed' = FALSE
     ELSE /\ review' = IF answer.is = "errors" THEN [NoReview EXCEPT !.is = "errors"]
                       ELSE [is |-> "ready", of |-> answer.levels, deletions |-> answer.deletions]
          /\ confirmed' = (confirmed /\ answer.is # "409")
          /\ UNCHANGED <<body, draft, typed>>
  /\ UNCHANGED <<server, others, harm>>

(* No answer, before or after the request was served: a message, and no more. *)
Lost(i) ==
  /\ requests[i].is # "done" /\ requests' = [requests EXCEPT ![i].is = "done"]
  /\ UNCHANGED <<server, page, others, harm>>

Init ==
  /\ retention \in {levels \in Policies : Valid(levels)}
  /\ oldest = retention
  /\ body = retention /\ draft = retention /\ review = NoReview /\ confirmed = FALSE
  /\ requests = <<>> /\ others = 0 /\ typed = {} /\ harm = {}

Next ==
  \/ \E l \in LevelNumbers, value \in Durations : Types(l, value)
  \/ \E i \in DOMAIN requests : PreviewServed(i) \/ SaveServed(i) \/ Reads(i) \/ Lost(i)
  \/ ReviewChanges \/ Confirms \/ Save \/ OthersSave \/ RowsAge \/ Prunes

Spec == Init /\ [][Next]_vars

(***************************************************************************)
(* Properties.                                                             *)
(***************************************************************************)
(* A save changes no level but those typed into on this page, so what another *)
(* tab has saved meanwhile is not put back, and it deletes rows only if the   *)
(* box was ticked, however its answers and reviews were delayed               *)
(* (settings-page.tsx:128-130, settings-routes.ts:157-166).                   *)
SavesWhatWasTyped == \A h \in harm : h[1] = "not reviewed"

(* A save deletes no rows beyond those of the change that was reviewed         *)
(* (docs/configuration.md:40: "Review changes shows what a shorter retention  *)
(* will delete"; settings-page.test.tsx:265: "the rows the operator saw").    *)
DeletesAsReviewed == \A h \in harm : h[1] # "not reviewed"
=============================================================================
