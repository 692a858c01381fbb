----------------------- MODULE ContentApprovalProofs -----------------------
(***************************************************************************)
(* The properties of ContentApproval, for all contents, texts, requests,   *)
(* members, roles and executions.  The invariant adds to them what an      *)
(* execution knows once it has read an approved content, and that answered *)
(* requests are never touched again, so that this knowledge lasts.         *)
(***************************************************************************)
EXTENDS ContentApproval, TLAPS

(* Only an authorized reviewer's answer makes a request approved.           *)
ApprovedByReviewer ==
    \A a \in Approvals : approval[a].status = "approved" =>
        LocalUser \in approval[a].reviewers \cap ContentReviewers

(* What was read from an approved content is what some request approved.    *)
ReadApproved(x) ==
    \E a \in Approvals : Approves(a, execution[x].content, execution[x].text)

ReadsAreBacked ==
    \A x \in Executions :
        /\ execution[x].at = "sent" => execution[x].approved
        /\ execution[x].at # "idle" /\ execution[x].own /\ execution[x].approved =>
              ReadApproved(x)

ContentInv ==
    ContentTypeOK /\ ApprovedContentIsUnedited /\ ApprovedByReviewer /\ ReadsAreBacked

(* No step undoes an approval. *)
ApprovalsStay ==
    \A a \in Approvals : approval[a].status = "approved" => approval'[a] = approval[a]

-----------------------------------------------------------------------------
LEMMA InitContentInv == ContentInit => ContentInv
BY ContentAssumption DEF ContentInit, ContentInv, ContentTypeOK, Exists, ContentRow,
   ApprovalRow, ExecutionRow, ApprovedContentIsUnedited, ApprovedByReviewer, ReadsAreBacked

(* An execution that does not move keeps what it knows.                     *)
LEMMA KnowledgeLasts ==
    ASSUME ReadsAreBacked, ApprovalsStay, execution' = execution
    PROVE  ReadsAreBacked'
<1> SUFFICES ASSUME NEW x \in Executions
             PROVE  /\ execution'[x].at = "sent" => execution'[x].approved
                    /\ execution'[x].at # "idle" /\ execution'[x].own /\ execution'[x].approved =>
                          ReadApproved(x)'
  BY DEF ReadsAreBacked
<1>1. execution'[x].at = "sent" => execution'[x].approved
  BY DEF ReadsAreBacked
<1>2. ASSUME execution'[x].at # "idle", execution'[x].own, execution'[x].approved
      PROVE  ReadApproved(x)'
  <2>1. PICK a \in Approvals : Approves(a, execution[x].content, execution[x].text)
    BY <1>2 DEF ReadsAreBacked, ReadApproved
  <2>2. approval'[a] = approval[a]
    BY <2>1 DEF ApprovalsStay, Approves
  <2> QED BY <2>1, <2>2 DEF ReadApproved, Approves
<1> QED BY <1>1, <1>2

(* A step that leaves the answered requests alone keeps the content's text  *)
(* and its approval together, where it keeps them.                          *)
LEMMA EditKeepsInv ==
    ASSUME ContentInv, NEW c \in Contents, NEW text \in Texts,
           NEW status \in EditStatuses, edit_content(c, text, status)
    PROVE  ContentInv'
<1>1. ContentTypeOK'
  BY DEF ContentInv, ContentTypeOK, ContentRow, Exists, edit_content, EditStatuses
<1>2. ApprovedContentIsUnedited'
  BY DEF ContentInv, ContentTypeOK, ApprovedContentIsUnedited, Approves, edit_content,
         EditStatuses
<1>3. ApprovedByReviewer'
  BY DEF ContentInv, ApprovedByReviewer, edit_content
<1>4. ReadsAreBacked'
  BY KnowledgeLasts DEF ContentInv, ApprovalsStay, edit_content
<1> QED BY <1>1, <1>2, <1>3, <1>4 DEF ContentInv

LEMMA VariantKeepsInv ==
    ASSUME ContentInv, NEW c \in Contents, NEW text \in Texts \cup {Blank, Null},
           edit_variant(c, text)
    PROVE  ContentInv'
<1>1. ContentTypeOK'
  BY DEF ContentInv, ContentTypeOK, Exists, edit_variant
<1>2. ApprovedContentIsUnedited' /\ ApprovedByReviewer'
  BY DEF ContentInv, ApprovedContentIsUnedited, Approves, ApprovedByReviewer, edit_variant
<1>3. ReadsAreBacked'
  BY KnowledgeLasts DEF ContentInv, ApprovalsStay, edit_variant
<1> QED BY <1>1, <1>2, <1>3 DEF ContentInv

LEMMA RequestKeepsInv ==
    ASSUME ContentInv, NEW a \in Approvals, NEW c \in Contents,
           NEW reviewers \in SUBSET Members, approval_request(a, c, reviewers)
    PROVE  ContentInv'
<1> DEFINE request == [content |-> c, reviewers |-> reviewers, status |-> "pending",
                       about |-> Null]
<1>1. /\ approval' = [approval EXCEPT ![a] = request]
      /\ content' = [content EXCEPT ![c].status = "pending"]
      /\ approval[a].status = "none"
      /\ UNCHANGED <<variant, lastDecision, execution>>
  BY DEF approval_request
<1>2. ContentTypeOK'
  <2>1. content' \in [Contents -> ContentRow]
    BY <1>1 DEF ContentRow, ContentInv, ContentTypeOK, EditStatuses
  <2>2. \A i \in Contents : Exists(i)' => Exists(i) \/ i = c
    BY <1>1 DEF ContentInv, ContentTypeOK, Exists
  <2>3. \A i \in Contents : Exists(i)' => content'[i].body \in Texts
    BY <1>1, <2>2 DEF ContentInv, ContentTypeOK, Exists, approval_request
  <2>4. request \in ApprovalRow
    BY DEF ApprovalRow
  <2>5. approval' \in [Approvals -> ApprovalRow]
    BY <1>1, <2>4 DEF ContentInv, ContentTypeOK
  <2>6. (\A b \in Approvals : approval[b].status # "none" =>
            approval[b].content \in Contents /\ Exists(approval[b].content))'
    <3>1. \A i \in Contents : Exists(i) \/ i = c => Exists(i)'
      BY <1>1 DEF ContentInv, ContentTypeOK, ContentRow, Exists
    <3>2. \A b \in Approvals : b # a => approval'[b] = approval[b]
      BY <1>1 DEF ContentInv, ContentTypeOK
    <3>3. approval'[a].content = c
      BY <1>1 DEF ContentInv, ContentTypeOK
    <3> QED BY <3>1, <3>2, <3>3 DEF ContentInv, ContentTypeOK
  <2>7. /\ variant' \in [Contents -> Texts \cup {Blank, Null}]
        /\ lastDecision' \in [Contents -> Approvals \cup {Null}]
        /\ execution' \in [Executions -> ExecutionRow]
    BY <1>1 DEF ContentInv, ContentTypeOK
  <2> QED BY <2>1, <2>3, <2>5, <2>6, <2>7 DEF ContentTypeOK
<1>3. ApprovalsStay
  BY <1>1 DEF ApprovalsStay, ContentInv, ContentTypeOK
<1>4. ApprovedContentIsUnedited'
  <2> SUFFICES ASSUME NEW i \in Contents, content'[i].status = "approved"
               PROVE  /\ lastDecision'[i] \in Approvals
                      /\ Approves(lastDecision[i], i, content[i].body)'
    BY DEF ApprovedContentIsUnedited, Approves
  <2>1. i # c /\ content'[i] = content[i]
    BY <1>1 DEF ContentInv, ContentTypeOK
  <2>2. lastDecision[i] \in Approvals /\ Approves(lastDecision[i], i, content[i].body)
    BY <2>1 DEF ContentInv, ApprovedContentIsUnedited
  <2>3. approval'[lastDecision[i]] = approval[lastDecision[i]]
    BY <1>3, <2>2 DEF ApprovalsStay, Approves
  <2> QED BY <1>1, <2>1, <2>2, <2>3 DEF Approves
<1>5. ApprovedByReviewer'
  BY <1>1 DEF ContentInv, ContentTypeOK, ApprovedByReviewer
<1>6. ReadsAreBacked'
  BY <1>1, <1>3, KnowledgeLasts DEF ContentInv
<1> QED BY <1>2, <1>4, <1>5, <1>6 DEF ContentInv

LEMMA DecideKeepsInv ==
    ASSUME ContentInv, NEW a \in Approvals, NEW decision \in Decisions,
           approval_decide(a, decision)
    PROVE  ContentInv'
<1> DEFINE c == approval[a].content
<1>1. /\ approval' = [approval EXCEPT ![a].status = decision, ![a].about = content[c].body]
      /\ content' = [content EXCEPT ![c].status = decision]
      /\ lastDecision' = [lastDecision EXCEPT ![c] = a]
      /\ approval[a].status = "pending"
      /\ LocalUser \in approval[a].reviewers
      /\ UNCHANGED <<variant, execution>>
  BY DEF approval_decide
<1>2. c \in Contents /\ Exists(c) /\ content[c].body \in Texts
  BY <1>1 DEF ContentInv, ContentTypeOK
<1>3. ContentTypeOK'
  <2>1. /\ content' \in [Contents -> ContentRow]
        /\ \A i \in Contents : Exists(i)' => content'[i].body \in Texts
    BY <1>1, <1>2 DEF ContentInv, ContentTypeOK, ContentRow, Exists, EditStatuses, Decisions
  <2>2. approval' \in [Approvals -> ApprovalRow]
    <3>1. [approval[a] EXCEPT !.status = decision, !.about = content[c].body] \in ApprovalRow
      BY <1>2 DEF ApprovalRow, ContentInv, ContentTypeOK
    <3> QED BY <1>1, <3>1 DEF ContentInv, ContentTypeOK
  <2>3. (\A b \in Approvals : approval[b].status # "none" =>
            approval[b].content \in Contents /\ Exists(approval[b].content))'
    <3> SUFFICES ASSUME NEW b \in Approvals, approval'[b].status # "none"
                 PROVE  approval'[b].content \in Contents
                        /\ content'[approval'[b].content].status # "none"
      BY DEF Exists
    <3>1. \A i \in Contents : Exists(i) => content'[i].status # "none"
      BY <1>1, <1>2 DEF ContentInv, ContentTypeOK, ContentRow, Exists, Decisions
    <3>2. approval'[b].content = approval[b].content /\ approval[b].status # "none"
      BY <1>1 DEF ContentInv, ContentTypeOK, ApprovalRow
    <3>3. approval[b].content \in Contents /\ Exists(approval[b].content)
      BY <3>2 DEF ContentInv, ContentTypeOK
    <3> QED BY <3>1, <3>2, <3>3
  <2>4. /\ variant' \in [Contents -> Texts \cup {Blank, Null}]
        /\ lastDecision' \in [Contents -> Approvals \cup {Null}]
        /\ execution' \in [Executions -> ExecutionRow]
    BY <1>1 DEF ContentInv, ContentTypeOK
  <2> QED BY <2>1, <2>2, <2>3, <2>4 DEF ContentTypeOK
<1>4. ApprovalsStay
  BY <1>1 DEF ApprovalsStay, ContentInv, ContentTypeOK
<1>5. ApprovedContentIsUnedited'
  <2> SUFFICES ASSUME NEW i \in Contents, content'[i].status = "approved"
               PROVE  /\ lastDecision'[i] \in Approvals
                      /\ approval'[lastDecision'[i]].content = i
                      /\ approval'[lastDecision'[i]].status = "approved"
                      /\ approval'[lastDecision'[i]].about = content'[i].body
    BY DEF ApprovedContentIsUnedited, Approves
  <2>1. CASE i = c
    BY <1>1, <1>2, <2>1 DEF ContentInv, ContentTypeOK
  <2>2. CASE i # c
    <3>1. content'[i] = content[i] /\ lastDecision'[i] = lastDecision[i]
      BY <1>1, <2>2 DEF ContentInv, ContentTypeOK
    <3>2. lastDecision[i] \in Approvals /\ Approves(lastDecision[i], i, content[i].body)
      BY <3>1 DEF ContentInv, ApprovedContentIsUnedited
    <3>3. approval'[lastDecision[i]] = approval[lastDecision[i]]
      BY <1>4, <3>2 DEF ApprovalsStay, Approves
    <3> QED BY <3>1, <3>2, <3>3 DEF Approves
  <2> QED BY <2>1, <2>2
<1>6. ApprovedByReviewer'
  <2>1. LocalUser \in ContentReviewers
    BY ContentAssumption DEF approval_decide, ContentReviewers
  <2> QED BY <1>1, <2>1 DEF ContentInv, ContentTypeOK, ApprovedByReviewer
<1>7. ReadsAreBacked'
  BY <1>1, <1>4, KnowledgeLasts DEF ContentInv
<1> QED BY <1>3, <1>5, <1>6, <1>7 DEF ContentInv

(* At the read, an approved content vouches for its text; later, only       *)
(* executions in the "read" state move.                                     *)
LEMMA ReadKeepsInv ==
    ASSUME ContentInv, NEW x \in Executions, NEW c \in Contents, ReadText(x, c)
    PROVE  ContentInv'
<1>1. /\ UNCHANGED <<content, variant, approval, lastDecision>>
      /\ Exists(c)
      /\ execution' = [execution EXCEPT ![x] =
            [at |-> "read", content |-> c,
             text |-> IF variant[c] = Null THEN content[c].body ELSE variant[c],
             own |-> variant[c] = Null,
             approved |-> content[c].status = "approved"]]
  BY DEF ReadText
<1>2. ContentTypeOK'
  <2>1. execution' \in [Executions -> ExecutionRow]
    BY <1>1 DEF ContentInv, ContentTypeOK, ContentRow, ExecutionRow
  <2> QED BY <1>1, <2>1 DEF ContentInv, ContentTypeOK, Exists
<1>3. ApprovedContentIsUnedited' /\ ApprovedByReviewer'
  BY <1>1 DEF ContentInv, ApprovedContentIsUnedited, Approves, ApprovedByReviewer
<1>4. ReadsAreBacked'
  <2> SUFFICES ASSUME NEW y \in Executions
               PROVE  /\ execution'[y].at = "sent" => execution'[y].approved
                      /\ execution'[y].at # "idle" /\ execution'[y].own /\ execution'[y].approved =>
                            \E a \in Approvals :
                               Approves(a, execution'[y].content, execution'[y].text)
    BY <1>1 DEF ReadsAreBacked, ReadApproved, Approves
  <2>1. CASE y = x
    <3>1. /\ execution'[y].at = "read"
          /\ execution'[y].content = c
          /\ execution'[y].own => execution'[y].text = content[c].body
          /\ execution'[y].approved => content[c].status = "approved"
      BY <1>1, <2>1 DEF ContentInv, ContentTypeOK
    <3>2. content[c].status = "approved" =>
              \E a \in Approvals : Approves(a, c, content[c].body)
      BY DEF ContentInv, ApprovedContentIsUnedited
    <3> QED BY <3>1, <3>2
  <2>2. CASE y # x
    <3>1. execution'[y] = execution[y]
      BY <1>1, <2>2 DEF ContentInv, ContentTypeOK
    <3> QED BY <3>1 DEF ContentInv, ReadsAreBacked, ReadApproved
  <2> QED BY <2>1, <2>2
<1> QED BY <1>2, <1>3, <1>4 DEF ContentInv

LEMMA CheckKeepsInv ==
    ASSUME ContentInv, NEW x \in Executions, CheckApproval(x)
    PROVE  ContentInv'
<1>1. /\ UNCHANGED <<content, variant, approval, lastDecision>>
      /\ execution[x].at = "read"
      /\ execution' = [execution EXCEPT ![x].at =
            IF MaySend(x) THEN "sent" ELSE "awaiting_approval"]
  BY DEF CheckApproval
<1>2. ContentTypeOK'
  <2>1. execution' \in [Executions -> ExecutionRow]
    BY <1>1 DEF ContentInv, ContentTypeOK, ExecutionRow
  <2> QED BY <1>1, <2>1 DEF ContentInv, ContentTypeOK, Exists
<1>3. ApprovedContentIsUnedited' /\ ApprovedByReviewer'
  BY <1>1 DEF ContentInv, ApprovedContentIsUnedited, Approves, ApprovedByReviewer
<1>4. ReadsAreBacked'
  <2> SUFFICES ASSUME NEW y \in Executions
               PROVE  /\ execution'[y].at = "sent" => execution'[y].approved
                      /\ execution'[y].at # "idle" /\ execution'[y].own /\ execution'[y].approved =>
                            \E a \in Approvals :
                               Approves(a, execution'[y].content, execution'[y].text)
    BY <1>1 DEF ReadsAreBacked, ReadApproved, Approves
  <2>1. /\ execution'[y].content = execution[y].content
        /\ execution'[y].text = execution[y].text
        /\ execution'[y].own = execution[y].own
        /\ execution'[y].approved = execution[y].approved
        /\ y # x => execution'[y].at = execution[y].at
        /\ y = x => execution[y].at = "read"
        /\ y = x /\ execution'[y].at = "sent" => MaySend(x)
    BY <1>1 DEF ContentInv, ContentTypeOK
  <2> QED BY <2>1 DEF ContentInv, ReadsAreBacked, ReadApproved, MaySend
<1> QED BY <1>2, <1>3, <1>4 DEF ContentInv

LEMMA NextContentInv == ContentInv /\ [ContentNext]_contentVars => ContentInv'
<1> SUFFICES ASSUME ContentInv, [ContentNext]_contentVars PROVE ContentInv'
  OBVIOUS
<1>1. CASE UNCHANGED contentVars
  BY <1>1 DEF contentVars, ContentInv, ContentTypeOK, Exists, ApprovedContentIsUnedited,
     Approves, ApprovedByReviewer, ReadsAreBacked, ReadApproved
<1>2. CASE ContentNext
  BY <1>2, EditKeepsInv, VariantKeepsInv, RequestKeepsInv, DecideKeepsInv, ReadKeepsInv,
     CheckKeepsInv DEF ContentNext
<1> QED BY <1>1, <1>2

LEMMA ContentInvariant == ContentSpec => []ContentInv
BY InitContentInv, NextContentInv, PTL DEF ContentSpec

-----------------------------------------------------------------------------
(* Every variable keeps its type. *)
THEOREM ContentTyped == ContentSpec => []ContentTypeOK
BY ContentInvariant, PTL DEF ContentInv

(* An approved content carries the text its last decision approved.         *)
THEOREM ApprovedUnedited == ContentSpec => []ApprovedContentIsUnedited
BY ContentInvariant, PTL DEF ContentInv

(* The text of a content that was sent is one an authorized reviewer        *)
(* approved.                                                                *)
THEOREM SentApproved == ContentSpec => []SentTextWasApproved
<1>1. ContentInv => SentTextWasApproved
  BY DEF ContentInv, ReadsAreBacked, ReadApproved, Approves, ApprovedByReviewer,
         SentTextWasApproved
<1> QED BY <1>1, ContentInvariant, PTL
=============================================================================
