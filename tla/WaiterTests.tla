---------------------------- MODULE WaiterTests -----------------------------
(***************************************************************************)
(* The unit tests of the waiter (nodejs_waiter/src/waiter.rs), run on the  *)
(* model's process_signal: one instance, signals made up by the test, and  *)
(* the numbers of checkers and conditions the tests assert in between.     *)
(***************************************************************************)
EXTENDS Integers, Sequences, FiniteSets

VARIABLES test, at, w, stopped

W == INSTANCE Waiter WITH Inst <- <<"a">>, Plans <- {}, Pool <- 2, plan <- <<>>, js <- 0,
        task <- <<>>, senders <- <<>>, chan <- <<>>, turn <- 1, checkers <- <<>>,
        current <- {}, sending <- <<>>, due <- {}, running <- TRUE, bg <- "loop",
        overtaken <- FALSE

vars == <<test, at, w, stopped>>

\* Steps of a test: register a callback, process a signal, assertions on
\* the number of checkers and on the conditions of a call, and expect_final:
\* the signal makes the call's Stop arrive, which had not arrived before.
Register(c) == [do |-> "register", arg |-> c]
Sig(s) == [do |-> "signal", arg |-> s]
Checkers(n) == [do |-> "checkers", arg |-> n]
Has(c, n) == [do |-> "conditions", arg |-> <<c, n>>]
Final(c, s) == [do |-> "final", arg |-> <<c, s>>]

Commit(n) == W!ACommit(<<n, 1>>, "app")
Hold(n) == W!Act("Hold", <<n, 1>>)

can_await_commit_simple_ordering ==
    <<Register(1), Checkers(0), Sig(W!ACall(1)), Checkers(1), Has(1, 1),
      Sig(Commit(1)), Has(1, 2), Sig(Hold(1)), Has(1, 1), Checkers(1),
      Final(1, W!AReturn(1)), Checkers(0)>>

can_await_commit_complex_ordering ==
    <<Register(1), Checkers(0), Sig(W!ACall(1)), Checkers(1), Has(1, 1),
      Sig(Commit(1)), Has(1, 2), Sig(Commit(2)), Has(1, 3), Sig(W!AReturn(1)), Has(1, 2),
      Sig(Hold(2)), Has(1, 1), Checkers(1), Final(1, Hold(1)), Checkers(0)>>

can_await_multiple_registered_zome_calls ==
    <<Checkers(0), Sig(W!ACall(1)), Checkers(0), Sig(Commit(1)), Sig(W!AReturn(1)), Checkers(0),
      Register(2), Checkers(0), Sig(W!ACall(2)), Checkers(1), Has(2, 1),
      Sig(Commit(2)), Has(2, 2), Sig(Commit(3)), Has(2, 3), Sig(Hold(1)),
      Sig(W!AReturn(2)), Has(2, 2), Checkers(1), Sig(W!ACall(3)), Checkers(1),
      Sig(Commit(4)), Sig(W!AReturn(3)), Checkers(1), Sig(Hold(2)), Has(2, 1),
      Final(2, Hold(3)), Checkers(0)>>

can_await_links ==
    <<Register(1), Checkers(0), Sig(W!ACall(1)), Checkers(1), Has(1, 1),
      Sig(W!ACommit(<<1, 1>>, "link_add")), Has(1, 3), Sig(Hold(1)), Has(1, 2),
      Sig(W!Act("AddLink", <<1, 1>>)), Has(1, 1), Checkers(1),
      Final(1, W!AReturn(1)), Checkers(0)>>

can_await_registered_and_unregistered_zome_calls ==
    <<Register(1), Checkers(0), Sig(W!ACall(1)), Checkers(1), Has(1, 1), Sig(Commit(1)), Has(1, 2),
      Sig(W!AReturn(1)), Has(1, 1), Register(2), Checkers(1), Sig(W!ACall(2)), Checkers(2), Has(2, 1),
      Sig(Commit(2)), Has(2, 2), Sig(Commit(3)), Has(2, 3), Final(1, Hold(1)),
      Sig(W!AReturn(2)), Has(2, 2), Sig(Hold(2)), Has(2, 1), Final(2, Hold(3)), Checkers(0)>>

Tests ==
    {can_await_commit_simple_ordering, can_await_commit_complex_ordering,
     can_await_multiple_registered_zome_calls, can_await_links,
     can_await_registered_and_unregistered_zome_calls}

-----------------------------------------------------------------------------
Init ==
    /\ test \in Tests
    /\ at = 1
    /\ w = [checkers |-> W!NoCheckers, current |-> {}, senders |-> <<>>]
    /\ stopped = {}

Received(s) ==
    LET x == W!process_signal(w, s)
    IN  /\ w' = [x EXCEPT !.checkers = W!Retained(x)]
        /\ stopped' = stopped \union W!Emptied(x)

Next ==
    /\ at <= Len(test)
    /\ LET step == test[at]
       IN  CASE step.do = "register" ->
                    w' = [w EXCEPT !.senders = Append(@, step.arg)] /\ UNCHANGED stopped
             [] step.do = "signal" -> Received(step.arg)
             [] step.do = "final" -> Received(step.arg[2])
             [] OTHER -> UNCHANGED <<w, stopped>>
    /\ at' = at + 1
    /\ UNCHANGED test

Spec == Init /\ [][Next]_vars

-----------------------------------------------------------------------------
\* The assertions of the repository's waiter tests hold on the model: the
\* counts of checkers and conditions after every signal, and a Stop that
\* arrives with the last awaited signal and not before it.
TestsPass ==
    at <= Len(test) =>
        LET step == test[at]
        IN  /\ step.do = "checkers" => Cardinality(DOMAIN w.checkers) = step.arg
            /\ step.do = "conditions" =>
                   /\ step.arg[1] \in DOMAIN w.checkers
                   /\ Len(w.checkers[step.arg[1]]) = step.arg[2]
            /\ step.do = "final" =>
                   /\ step.arg[1] \notin stopped
                   /\ step.arg[1] \in W!Emptied(W!process_signal(w, step.arg[2]))
=============================================================================
