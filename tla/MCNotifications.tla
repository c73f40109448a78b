-------------------------- MODULE MCNotifications --------------------------
(* Small instances of Notifications for TLC. *)
EXTENDS Notifications

\* Every event concerns every recipient.
Everybody == [e \in DomainEvent |-> Recipient]
=============================================================================
