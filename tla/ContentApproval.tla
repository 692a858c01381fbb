-------------------------- MODULE ContentApproval --------------------------
(***************************************************************************)
(* The approval of content and what a Telegram execution does with it.     *)
(* Editing, asking for an approval and deciding one are commands of the    *)
(* main thread, each atomic; an execution runs on a worker and reads the   *)
(* text with the content's status in one statement and the approvals in    *)
(* the next, so that any command may come between the two.  One workspace; *)
(* the database refuses a foreign one's rows (WorkspaceRecords).           *)
(***************************************************************************)
EXTENDS Naturals

CONSTANTS
    Contents,
    Texts,       \* the bodies a content or a variant may have
    Approvals,   \* the ids a caller chooses for a request
    Members,
    MemberRole,  \* the role of an active member, "none" for an inactive one
    LocalUser,   \* the member every command runs as
    Executions

Blank == ""      \* a body of white space, which only a variant can have
Null  == "null"

ASSUME ContentAssumption ==
    /\ LocalUser \in Members
    /\ MemberRole \in [Members -> {"owner", "admin", "editor", "operator",
                                   "reviewer", "viewer", "none"}]
    /\ Blank \notin Texts
    /\ Null \notin Texts
    /\ Null \notin Approvals

VARIABLES
    content,       \* [body, status]; the status is "none" before the first upsert
    variant,       \* the body of the Telegram variant, Null without one
    approval,      \* [content, reviewers, status, about]; status "none": no such row
    lastDecision,  \* history: the approval a content's last decision answered
    execution      \* [at, content, text, own, approved]

contentVars == <<content, variant, approval, lastDecision, execution>>

Decisions        == {"approved", "rejected", "changes_requested"}
EditStatuses     == {"draft", "pending", "rejected", "changes_requested"}
ContentWriters   == {"owner", "admin", "editor"}
ReviewerRoles    == {"owner", "admin", "reviewer"}
ContentReviewers == {m \in Members : MemberRole[m] \in ReviewerRoles}

Exists(c) == content[c].status # "none"

ContentInit ==
    /\ content = [c \in Contents |-> [body |-> Null, status |-> "none"]]
    /\ variant = [c \in Contents |-> Null]
    /\ approval = [a \in Approvals |->
          [content |-> Null, reviewers |-> {}, status |-> "none", about |-> Null]]
    /\ lastDecision = [c \in Contents |-> Null]
    /\ execution = [x \in Executions |->
          [at |-> "idle", content |-> Null, text |-> Null, own |-> TRUE, approved |-> FALSE]]

(* As edit_content, if the edit left the status of the content alone.        *)
edit_keeps_status(c, text, status) ==
    /\ MemberRole[LocalUser] \in ContentWriters
    /\ content' = [content EXCEPT ![c] =
          [body |-> text, status |-> IF Exists(c) THEN @.status ELSE status]]
    /\ UNCHANGED <<variant, approval, lastDecision, execution>>

(* Body and status change together; the status cannot be "approved".        *)
edit_content(c, text, status) ==
    /\ MemberRole[LocalUser] \in ContentWriters
    /\ content' = [content EXCEPT ![c] = [body |-> text, status |-> status]]
    /\ UNCHANGED <<variant, approval, lastDecision, execution>>

(* A variant may be emptied or cleared; the content's status stays.         *)
edit_variant(c, text) ==
    /\ MemberRole[LocalUser] \in ContentWriters
    /\ Exists(c)
    /\ variant' = [variant EXCEPT ![c] = text]
    /\ UNCHANGED <<content, approval, lastDecision, execution>>

(* As approval_request, without looking the content up.                     *)
request_unchecked(a, c, reviewers) ==
    /\ MemberRole[LocalUser] \in ContentWriters
    /\ reviewers # {}
    /\ reviewers \subseteq ContentReviewers
    /\ approval[a].status = "none"
    /\ approval' = [approval EXCEPT ![a] =
          [content |-> c, reviewers |-> reviewers, status |-> "pending", about |-> Null]]
    /\ content' = [content EXCEPT ![c].status = "pending"]
    /\ UNCHANGED <<variant, lastDecision, execution>>

(* A content may have several requests, answered and open ones.             *)
approval_request(a, c, reviewers) ==
    /\ MemberRole[LocalUser] \in ContentWriters
    /\ Exists(c)
    /\ reviewers # {}
    /\ reviewers \subseteq ContentReviewers
    /\ approval[a].status = "none"
    /\ approval' = [approval EXCEPT ![a] =
          [content |-> c, reviewers |-> reviewers, status |-> "pending", about |-> Null]]
    /\ content' = [content EXCEPT ![c].status = "pending"]
    /\ UNCHANGED <<variant, lastDecision, execution>>

approval_decide(a, decision) ==
    LET c == approval[a].content IN
    /\ MemberRole[LocalUser] \in ReviewerRoles
    /\ approval[a].status = "pending"
    /\ LocalUser \in approval[a].reviewers
    /\ approval' = [approval EXCEPT ![a].status = decision, ![a].about = content[c].body]
    /\ content' = [content EXCEPT ![c].status = decision]
    /\ lastDecision' = [lastDecision EXCEPT ![c] = a]
    /\ UNCHANGED <<variant, execution>>

(* COALESCE(variant, body) and the status, in one statement.                *)
ReadText(x, c) ==
    /\ execution[x].at = "idle"
    /\ Exists(c)
    /\ execution' = [execution EXCEPT ![x] =
          [at |-> "read", content |-> c,
           text |-> IF variant[c] = Null THEN content[c].body ELSE variant[c],
           own |-> variant[c] = Null,
           approved |-> content[c].status = "approved"]]
    /\ UNCHANGED <<content, variant, approval, lastDecision>>

ApprovalExists(c) ==
    \E a \in Approvals : approval[a].content = c /\ approval[a].status = "approved"

(* As MaySend, trusting any approval the content ever got.                   *)
MaySendOnceApproved(x) ==
    ApprovalExists(execution[x].content) /\ execution[x].text # Blank

MaySend(x) ==
    /\ execution[x].approved
    /\ ApprovalExists(execution[x].content)
    /\ execution[x].text # Blank

(* The text that was read leaves, or the task waits for an approval.        *)
CheckApproval(x) ==
    /\ execution[x].at = "read"
    /\ execution' = [execution EXCEPT ![x].at =
          IF MaySend(x) THEN "sent" ELSE "awaiting_approval"]
    /\ UNCHANGED <<content, variant, approval, lastDecision>>

ContentNext ==
    \/ \E c \in Contents, text \in Texts, status \in EditStatuses :
          edit_content(c, text, status)
    \/ \E c \in Contents, text \in Texts \cup {Blank, Null} : edit_variant(c, text)
    \/ \E a \in Approvals, c \in Contents, reviewers \in SUBSET Members :
          approval_request(a, c, reviewers)
    \/ \E a \in Approvals, decision \in Decisions : approval_decide(a, decision)
    \/ \E x \in Executions, c \in Contents : ReadText(x, c)
    \/ \E x \in Executions : CheckApproval(x)

ContentSpec == ContentInit /\ [][ContentNext]_contentVars

-----------------------------------------------------------------------------
(* Properties *)

(* Type. *)
ContentRow   == [body : Texts \cup {Null}, status : EditStatuses \cup {"approved", "none"}]
ApprovalRow  == [content : Contents \cup {Null}, reviewers : SUBSET Members,
                 status : Decisions \cup {"pending", "none"}, about : Texts \cup {Null}]
ExecutionRow == [at : {"idle", "read", "sent", "awaiting_approval"},
                 content : Contents \cup {Null}, text : Texts \cup {Blank, Null},
                 own : BOOLEAN, approved : BOOLEAN]

ContentTypeOK ==
    /\ content \in [Contents -> ContentRow]
    /\ \A c \in Contents : Exists(c) => content[c].body \in Texts
    /\ variant \in [Contents -> Texts \cup {Blank, Null}]
    /\ approval \in [Approvals -> ApprovalRow]
    /\ \A a \in Approvals : approval[a].status # "none" =>
          approval[a].content \in Contents /\ Exists(approval[a].content)
    /\ lastDecision \in [Contents -> Approvals \cup {Null}]
    /\ execution \in [Executions -> ExecutionRow]

(* Approval a let the text of c pass. *)
Approves(a, c, text) ==
    /\ approval[a].content = c
    /\ approval[a].status = "approved"
    /\ approval[a].about = text

(* A content that shows as approved carries the very text its last decision *)
(* approved: no sequence of edits, of further requests for the same content *)
(* and of decisions in any order brings the status back over another text.  *)
(* (content_upsert resets the status, approval_decide sets it.)             *)
ApprovedContentIsUnedited ==
    \A c \in Contents : content[c].status = "approved" =>
        /\ lastDecision[c] \in Approvals
        /\ Approves(lastDecision[c], c, content[c].body)

(* The text of a content that leaves in a message was current when an       *)
(* authorized reviewer approved it, whatever was edited or decided between  *)
(* the two statements of the execution.  A platform variant has no such     *)
(* protection: content_variant_upsert leaves the status alone.              *)
SentTextWasApproved ==
    \A x \in Executions : execution[x].at = "sent" /\ execution[x].own =>
        \E a \in Approvals :
            /\ Approves(a, execution[x].content, execution[x].text)
            /\ LocalUser \in approval[a].reviewers \cap ContentReviewers
=============================================================================
