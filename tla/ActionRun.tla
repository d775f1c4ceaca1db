-------------------------------- MODULE ActionRun --------------------------------
(*****************************************************************************)
(* One run of notify-kit/bots/opencode-github-action/src/index.mjs: a job    *)
(* of GitHub that answers the comment it was started for.  The calls of      *)
(* GitHub and of the opencode server may each fail or time out, which fails  *)
(* the job; a session that is not shared fails nothing.                      *)
(*                                                                           *)
(* Texts are lengths.  Limits are those of the source, scaled down by the    *)
(* constants.                                                                *)
(*****************************************************************************)
EXTENDS Naturals, Sequences

CONSTANTS Jobs,          \* the events and texts a job may be started with
          ContextLimit,  \* MAX_PROMPT_CONTEXT_CHARS
          PartLimit,     \* MAX_ISSUE_BODY_CHARS and the like
          CommentLimit,  \* the `max` of truncateForGitHub
          Mark,          \* length of "\n\n[truncated]\n"
          CommentMargin  \* what truncateForGitHub leaves free for it

ASSUME ActionRunAssumption ==
    /\ {ContextLimit, PartLimit, CommentLimit, Mark, CommentMargin} \subseteq Nat \ {0}
    /\ Mark <= CommentMargin /\ CommentMargin <= CommentLimit
    /\ Mark <= PartLimit /\ PartLimit <= ContextLimit
    /\ \A j \in Jobs : j.parts \in Seq(Nat) /\ {j.hunk, j.reply} \subseteq Nat

VARIABLES
    job,      \* [event, number, comment, bot, command, request, parts, hunk, reply]
    at,       \* where `run` is
    context,  \* the length of what goes before the request
    link,     \* the share URL
    comments  \* what was posted: <<[on, length]>>

actionVars == <<job, at, context, link, comments>>

LengthOfLink == 1

\* truncateForGitHub
CutForGitHub(length) ==
    IF length <= CommentLimit THEN length ELSE CommentLimit - CommentMargin + Mark

\* What a bug would do: the mark is added to a text of the full length.
CutPastTheLimit(length, max) == IF length <= max THEN length ELSE max + Mark
\* truncateForPrompt
CutForPrompt(length, max) == IF length <= max THEN length ELSE max - Mark + Mark

Total(lengths) ==
    LET total[i \in 0..Len(lengths)] == IF i = 0 THEN 0 ELSE total[i - 1] + CutForPrompt(lengths[i], PartLimit)
    IN total[Len(lengths)]

\* formatIssueThread: title, body and comments, each cut, and cut together
IssueContext == CutForPrompt(Total(job.parts), ContextLimit)

\* formatPullRequest, and the hunk after it
ReviewContext == CutForPrompt(Total(job.parts), ContextLimit) + CutForPrompt(job.hunk, PartLimit)

ActionRunInit ==
    /\ job \in Jobs /\ at = "start" /\ context = 0 /\ link = FALSE /\ comments = <<>>

\* No command, a bot, nothing to ask, no number, or another event.
IssueIsAsked == job.event = "issue_comment" /\ job.number /\ job.comment /\ ~job.bot /\ job.command /\ job.request > 0
ReviewIsAsked ==
    /\ job.event = "pull_request_review_comment"
    /\ job.number /\ job.comment /\ ~job.bot /\ job.command /\ job.request > 0

Ignores ==
    /\ at = "start" /\ ~IssueIsAsked /\ ~ReviewIsAsked
    /\ at' = "done" /\ UNCHANGED <<job, context, link, comments>>

JobFails == at \notin {"done", "failed"} /\ at' = "failed" /\ UNCHANGED <<job, context, link, comments>>

ReadsIssue ==
    /\ at = "start" /\ IssueIsAsked
    /\ at' = "create" /\ context' = IssueContext
    /\ UNCHANGED <<job, link, comments>>

ReadsReview ==
    /\ at = "start" /\ ReviewIsAsked
    /\ at' = "create" /\ context' = ReviewContext
    /\ UNCHANGED <<job, link, comments>>

SessionReady == at = "create" /\ at' = "share" /\ UNCHANGED <<job, context, link, comments>>

Shares ==
    /\ at = "share" /\ at' = "prompt" /\ link' \in BOOLEAN
    /\ UNCHANGED <<job, context, comments>>

Answered == at = "prompt" /\ at' = "post" /\ UNCHANGED <<job, context, link, comments>>

Body == CutForGitHub(job.reply + IF link THEN LengthOfLink ELSE 0)

PostsOnIssue ==
    /\ at = "post" /\ job.event = "issue_comment" /\ at' = "done"
    /\ comments' = Append(comments, [on |-> "issue", length |-> Body])
    /\ UNCHANGED <<job, context, link>>

PostsOnReview ==
    /\ at = "post" /\ job.event = "pull_request_review_comment" /\ at' = "done"
    /\ comments' = Append(comments, [on |-> "review", length |-> Body])
    /\ UNCHANGED <<job, context, link>>

ActionRunNext ==
    \/ Ignores \/ JobFails \/ ReadsIssue \/ ReadsReview \/ SessionReady \/ Shares \/ Answered
    \/ PostsOnIssue \/ PostsOnReview

ActionRunSpec == ActionRunInit /\ [][ActionRunNext]_actionVars

-----------------------------------------------------------------------------
\* Types.
ActionRunTypeOK ==
    /\ job \in Jobs /\ context \in Nat /\ link \in BOOLEAN
    /\ at \in {"start", "create", "share", "prompt", "post", "done", "failed"}
    /\ Len(comments) <= 1

\* A job that succeeds has answered if and only if a person asked, where it was asked; what it
\* sends to the model and to GitHub stays below the limits, marks and all.
ActionAnswersOnce ==
    /\ at = "done" => Len(comments) = IF IssueIsAsked \/ ReviewIsAsked THEN 1 ELSE 0
    /\ \A i \in DOMAIN comments :
         /\ comments[i].on = IF job.event = "issue_comment" THEN "issue" ELSE "review"
         /\ comments[i].length <= CommentLimit
    /\ context <= ContextLimit + IF job.event = "issue_comment" THEN 0 ELSE PartLimit

(***************************************************************************)
(* The inductive invariant: a job that has got beyond its start was asked, *)
(* and nothing is posted but by its last step.                             *)
(***************************************************************************)
ActionInv ==
    /\ ActionRunTypeOK /\ ActionAnswersOnce
    /\ at \in {"create", "share", "prompt", "post"} => IssueIsAsked \/ ReviewIsAsked
    /\ at # "done" => comments = <<>>

=============================================================================
