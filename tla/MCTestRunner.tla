---------------------------- MODULE MCTestRunner ----------------------------
(***************************************************************************)
(* Instances of TestRunner: scenarios of one or two messages against a rule *)
(* that is edited, removed, slow, fragmented, cut short or not encodable.   *)
(***************************************************************************)
EXTENDS TestRunner

Plain == [delay |-> FALSE, sizes |-> <<>>, gap |-> FALSE, cut |-> NoCut, encodable |-> TRUE]
Slow == [Plain EXCEPT !.delay = TRUE]
Pieces == [Slow EXCEPT !.sizes = <<1>>, !.gap = TRUE]
Cut(n) == [Plain EXCEPT !.cut = n]
Broken == [Slow EXCEPT !.encodable = FALSE]

CONSTANTS tested, other, none
MCMaxItems == [c \in {tested, other} |-> IF c = tested THEN 2 ELSE 1]
MCEdits == <<Pieces, none, Cut(1)>>

T(messages, mode, sizes, count, pause, abort) ==
  [messages |-> messages, mode |-> mode, sizes |-> sizes, count |-> count,
   pause |-> pause, abort |-> abort, permitted |-> TRUE, mock |-> TRUE, company |-> FALSE]

MCTransmissions ==
  {T(<<"request", "request">>, "coalesced", <<>>, 0, FALSE, NoAbort),
   T(<<"request", "request">>, "fragmented", <<3>>, 0, TRUE, NoAbort),
   T(<<"request", "fatal">>, "coalesced", <<>>, 0, FALSE, NoAbort),
   T(<<"fatal", "request">>, "fragmented", <<>>, 2, TRUE, NoAbort),
   T(<<"invalid", "request">>, "coalesced", <<>>, 0, FALSE, 3),
   T(<<"request">>, "fragmented", <<1>>, 0, FALSE, 1)}
  \cup {[T(<<"request", "request">>, "coalesced", <<>>, 0, FALSE, NoAbort) EXCEPT !.mock = FALSE],
        [T(<<"request">>, "single", <<>>, 0, FALSE, NoAbort) EXCEPT !.company = TRUE],
        [T(<<"request">>, "single", <<>>, 0, FALSE, NoAbort) EXCEPT !.permitted = FALSE]}

MCExpectations ==
  [timeout : BOOLEAN, disconnect : BOOLEAN, statusCode : {"any", "rule", "other"},
   content : {<<>>, [body |-> 1], [body |-> 1, bodyContains |-> 2]}]
=============================================================================
