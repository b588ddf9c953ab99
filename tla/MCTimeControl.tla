--------------------------- MODULE MCTimeControl ---------------------------
(* An instance of TimeControl for TLC, on a clock with a short day. *)
EXTENDS TimeControl

At(h, m, s) == [wHour |-> h, wMinute |-> m, wSecond |-> s]

\* One window within the day, one through midnight, one that is empty.
SomeWindows == {<<At(0, 0, 1), At(1, 1, 2)>>, <<At(2, 0, 2), At(0, 2, 1)>>,
                <<At(0, 1, 1), At(0, 1, 1)>>}
=============================================================================
