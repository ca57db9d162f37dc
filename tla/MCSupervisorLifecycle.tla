---------------------- MODULE MCSupervisorLifecycle ----------------------
(* Small instances of SupervisorLifecycle for TLC. *)
EXTENDS SupervisorLifecycle

CONSTANTS c1, c2

\* The second connection's client does not know the token.
OneHolder == {c1}
NoNotification == {}
OneNotification == {<<c1, 2>>}
NoneWedged == {}
FirstWedged == {<<c1, 1>>}
=============================================================================
