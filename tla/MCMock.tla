------------------------------- MODULE MCMock -------------------------------
(* Three submissions against small scenarios: an interactive command whose  *)
(* input crosses the boundaries of steps, one that needs a password, one    *)
(* that fails, one that uses up its time.                                   *)
EXTENDS MockBackend

MCTexts == {"", "talk", "sudo", "elsewhere", "a", "b", "eof"}
MCSubmissions == <<"talk", "sudo", "talk">>
MCElevated == {"sudo"}
MCChunks == {<<"a">>, <<"a", "b">>}
MCWatched == {1, 3}

Emit == [kind |-> "emit"]
Receive(data) == [kind |-> "receive", data |-> data]
Advance(seconds) == [kind |-> "advance", seconds |-> seconds]
Failure(failure) == [kind |-> "failure", failure |-> failure]

Expect(command, steps) == [NoExpectation EXCEPT !.command = command, !.steps = steps]

Talk(steps) == [Expect("talk", steps) EXCEPT !.cwd = "elsewhere"]
Sudo(prompts, authenticated) ==
  [Expect("sudo", <<Emit>>) EXCEPT !.prompts = prompts, !.authenticated = authenticated]

MCScenarios == {
  <<Talk(<<Receive(<<"a">>), Receive(<<"b", "a">>), Receive(Eof)>>), Sudo(1, TRUE)>>,
  <<Talk(<<Advance(1), Receive(<<"a", "b">>), Failure("output")>>), Sudo(3, FALSE),
    Talk(<<Advance(1), Receive(<<"a">>), Advance(2)>>)>>,
  <<Talk(<<Emit, Receive(<<"a">>), Failure("session")>>)>> }

ASSUME MCReceivesInput == ReceivesInput
=============================================================================
