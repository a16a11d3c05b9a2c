----------------------------- MODULE MCChatRun -----------------------------
(***************************************************************************)
(* A chat run with a reading tool, one or two mutating ones, and the       *)
(* rounds that tell the branches of the loop apart.                        *)
(***************************************************************************)
EXTENDS ChatRun, TLC

OneMutating   == {"restart"}
TwoMutating   == {"restart", "scale"}
AskUser       == "ask_user"

\* A mutation behind a read, and a question.
DialogueRounds == {<<"get", "restart">>, <<AskUser>>}

\* A mutation behind a read, two at once, and a question.
ApprovalRounds == {<<"get", "restart">>, <<"scale", "restart">>, <<AskUser>>}

\* One mutation, and two at once.
MutatingRounds == {<<"restart">>, <<"restart", "scale">>}

ClaudeOrLocal == {"anthropic", "lenient"}
AnyRole == BOOLEAN
DevOnly == {TRUE}

\* The slots of tasks are interchangeable.
SlotSymmetry == Permutations(Tasks)

TwoAnswersOneTrouble == [e \in Events |-> IF e = "answer" THEN 2 ELSE 1]
ThreeAnswers         == [e \in Events |-> IF e = "answer" THEN 3 ELSE 0]
TwoAnswers           == [e \in Events |-> IF e = "answer" THEN 2 ELSE 0]
=============================================================================
