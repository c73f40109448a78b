----------------------------- MODULE MCPlatform -----------------------------
(***************************************************************************)
(* A small instance of every component outside the availability engine.    *)
(* The components share no state with each other here, so interleaving     *)
(* them would multiply their states and show nothing: a behaviour picks    *)
(* one of them, its scope, and the rest stays as it was initially.         *)
(*                                                                         *)
(* Some components have two scopes, which bound different things: a race   *)
(* of two on little data, and one at a time on more.                       *)
(***************************************************************************)
EXTENDS MCPayments, Refunds, Connections, Advertising, Staff, Sessions,
        Blackouts, MCNotifications, Messaging

CONSTANT Scopes   \* the scopes of the run

VARIABLE scope

platformVars == <<scope, vars, refundVars, connectionVars, adVars, staffVars,
                  sessionVars, blackoutVars, noticeVars, messagingVars>>

One(set) == CHOOSE x \in set : TRUE

AskedPart == {[key |-> "part", amount |-> 1]}
TwoUids == <<"u1", "u2">>
AdPeriods == {[start |-> 1, end |-> 1], [start |-> 2, end |-> 2]}

PlatformInit ==
    /\ scope \in Scopes
    /\ Init /\ InitRefunds /\ InitConnections /\ InitAdvertising /\ InitStaff
    /\ InitSessions /\ InitBlackouts /\ InitNotifications /\ InitMessaging

-----------------------------------------------------------------------------
\* One booking is paid for: "checkouts" without the sweep, "expiries" with the
\* sweep, but without crashes, lost calls and challenges to the customer,
\* "noFaults" without the sweep, crashes and lost calls.
PaymentsScope ==
    /\ scope \in {"checkouts", "expiries", "noFaults"}
    /\ Next
    /\ \/ scope = "checkouts" /\ UNCHANGED sweep
       \/ /\ scope = "expiries" /\ UNCHANGED faults
          /\ \A p \in Intent : intent'[p] # "REQUIRES_ACTION"
       \/ scope = "noFaults" /\ UNCHANGED <<faults, sweep>>
    /\ \A b \in Booking : b \notin Range(BookingOf) => status'[b] = "DRAFT"

BookingsScope ==
    /\ scope = "bookings" /\ BookingsNext
    /\ UNCHANGED <<paymentRows, intent, event, work>>

\* One run at a time, two events and faults; or one event and fault, beside a
\* PATCH; or two runs over one event.
OneEvent == \A u \in Uid \ {"u1"} : feed'[u] = "absent"
OneRun == \A r \in SyncRun \ {One(SyncRun)} : sync'[r] = IdleRun
ConnectionsScope ==
    /\ scope \in {"oneSync", "patched", "twoSyncs"}
    /\ ConnectionsNext
    /\ \/ scope = "oneSync" /\ OneRun /\ UNCHANGED patch
       \/ scope = "patched" /\ OneRun /\ OneEvent /\ syncFaults' <= 1
       \/ scope = "twoSyncs" /\ OneEvent /\ UNCHANGED <<patch, syncFaults>>

\* Two promotions and one request at a time; or one promotion and two requests.
AdvertisingScope ==
    /\ scope \in {"oneAdRequest", "oneAd"}
    /\ AdvertisingNext
    /\ \/ /\ scope = "oneAdRequest"
          /\ \A t \in AdRequest \ {One(AdRequest)} : UNCHANGED adTask[t]
       \/ /\ scope = "oneAd"
          /\ \A a \in Ad \ {One(Ad)} : UNCHANGED ads[a]
          /\ \A t \in AdRequest : adTask'[t].ad = One(Ad)

\* One editor and a guest; or two editors and no guest.
BlackoutsScope ==
    /\ scope \in {"oneEditor", "noGuest"}
    /\ BlackoutsNext
    /\ \/ /\ scope = "oneEditor"
          /\ \A e \in Editor \ {One(Editor)} : rangeEdit'[e] = NoEdit
       \/ scope = "noGuest" /\ UNCHANGED guest

\* Two requests to send at a time; or one, a message more, and marks in order.
MessagingScope ==
    /\ scope \in {"twoSenders", "oneSender"}
    /\ MessagingNext
    /\ \/ scope = "twoSenders" /\ nextMessage' <= 3
       \/ /\ scope = "oneSender" /\ UNCHANGED marksUpset
          /\ \A q \in SendRequest \ {One(SendRequest)} : UNCHANGED sending[q]

PlatformNext ==
    /\ UNCHANGED scope
    /\ \/ /\ PaymentsScope \/ BookingsScope
          /\ UNCHANGED <<refundVars, connectionVars, adVars, staffVars,
                         sessionVars, blackoutVars, noticeVars, messagingVars>>
       \/ /\ scope = "refunds" /\ RefundsNext
          /\ UNCHANGED <<vars, connectionVars, adVars, staffVars, sessionVars,
                         blackoutVars, noticeVars, messagingVars>>
       \/ /\ ConnectionsScope
          /\ UNCHANGED <<vars, refundVars, adVars, staffVars, sessionVars,
                         blackoutVars, noticeVars, messagingVars>>
       \/ /\ AdvertisingScope
          /\ UNCHANGED <<vars, refundVars, connectionVars, staffVars,
                         sessionVars, blackoutVars, noticeVars, messagingVars>>
       \/ /\ scope = "staff" /\ StaffNext
          /\ UNCHANGED <<vars, refundVars, connectionVars, adVars, sessionVars,
                         blackoutVars, noticeVars, messagingVars>>
       \/ /\ scope = "sessions" /\ SessionsNext
          /\ UNCHANGED <<vars, refundVars, connectionVars, adVars, staffVars,
                         blackoutVars, noticeVars, messagingVars>>
       \/ /\ BlackoutsScope
          /\ UNCHANGED <<vars, refundVars, connectionVars, adVars, staffVars,
                         sessionVars, noticeVars, messagingVars>>
       \/ /\ scope = "notices" /\ NotificationsNext
          /\ UNCHANGED <<vars, refundVars, connectionVars, adVars, staffVars,
                         sessionVars, blackoutVars, messagingVars>>
       \/ /\ MessagingScope
          /\ UNCHANGED <<vars, refundVars, connectionVars, adVars, staffVars,
                         sessionVars, blackoutVars, noticeVars>>

PlatformSpec == PlatformInit /\ [][PlatformNext]_platformVars

\* The fairness of Payments, without its sweep.
PaymentsFairHere == WF_vars(scope = "noFaults" /\ Progress)

\* Bookings and Payments share rows.  In "noFaults" the sweep stands still, so
\* that BookingsFairness leaves only the behaviours whose booking is answered:
\* there, the answer is where DecisionSettlesAuthorization begins.  The others
\* have nothing they must do in their initial states, so that their fairness
\* asks nothing of a behaviour in another scope.
PlatformFairSpec ==
    /\ PlatformSpec
    /\ BookingsFairness /\ PaymentsFairHere
    /\ RefundsFairness /\ ConnectionsFairness
    /\ AdvertisingFairness /\ MessagingFairness

\* Every component's state stays in its types.
PlatformTypeOK ==
    /\ TypeOK /\ RefundsTypeOK /\ ConnectionsTypeOK /\ AdvertisingTypeOK
    /\ StaffTypeOK /\ SessionsTypeOK /\ BlackoutsTypeOK
    /\ NotificationsTypeOK /\ MessagingTypeOK
=============================================================================
