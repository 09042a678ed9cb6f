------------------------------- MODULE MCBoard -------------------------------
(* IssueBoard for TLC.                                                       *)
EXTENDS IssueBoard, TLC

\* In the small directory of the runs an owner opens a final status again.
MCEntries == {<<"cancelled", "todo">>}
MCNone == {}

\* No action reads asked, nor do the properties of the sequential run.
WithoutAsked == <<issues, directory, wakeups, op>>

IssuesAlike == Permutations(Issues)
AllAlike == Permutations(Issues) \union Permutations(Workers)
==============================================================================
