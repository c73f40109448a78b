-------------------------- MODULE Platform_proofs ---------------------------
(***************************************************************************)
(* The components together.  A behaviour of the platform, seen through the *)
(* variables of one component, is a behaviour of that component: every     *)
(* step is a step of it or leaves it alone.  So what is proved of each     *)
(* component holds of the platform, whatever its scopes are.               *)
(***************************************************************************)
EXTENDS MCPlatform, Payments_proofs, Listings_proofs, Users_proofs

\* Every component starts where it would start alone.
LEMMA ComponentsInitially ==
    PlatformInit =>
        /\ Init /\ InitRefunds /\ InitConnections /\ InitAdvertising
        /\ InitStaff /\ InitSessions /\ InitBlackouts /\ InitNotifications
        /\ InitMessaging
BY DEF PlatformInit

\* A step of a component, or none of its variables moves.
ComponentSteps ==
    /\ [Next]_vars /\ [RefundsNext]_refundVars
    /\ [ConnectionsNext]_connectionVars /\ [AdvertisingNext]_adVars
    /\ [StaffNext]_staffVars /\ [SessionsNext]_sessionVars
    /\ [BlackoutsNext]_blackoutVars /\ [NotificationsNext]_noticeVars
    /\ [MessagingNext]_messagingVars

\* A step of the platform is a step of at most one component.
LEMMA StepsAreComponentSteps ==
    [PlatformNext]_platformVars => ComponentSteps
<1> USE DEF ComponentSteps
<1>1. CASE UNCHANGED platformVars
  BY <1>1 DEF platformVars
<1>2. BookingsScope => Next
  BY DEF BookingsScope, Next
<1>3. CASE PlatformNext
  BY <1>2, <1>3 DEF PlatformNext, PaymentsScope, ConnectionsScope,
                    AdvertisingScope, BlackoutsScope, MessagingScope
<1> QED BY <1>1, <1>3

\* The platform is each of its components.
THEOREM PlatformIsItsComponents ==
    PlatformSpec =>
        /\ Spec /\ RefundsSpec /\ ConnectionsSpec /\ AdvertisingSpec
        /\ StaffSpec /\ SessionsSpec /\ BlackoutsSpec /\ NotificationsSpec
        /\ MessagingSpec
<1>1. [PlatformNext]_platformVars =>
         /\ [Next]_vars /\ [RefundsNext]_refundVars
         /\ [ConnectionsNext]_connectionVars /\ [AdvertisingNext]_adVars
         /\ [StaffNext]_staffVars /\ [SessionsNext]_sessionVars
         /\ [BlackoutsNext]_blackoutVars /\ [NotificationsNext]_noticeVars
         /\ [MessagingNext]_messagingVars
  BY StepsAreComponentSteps DEF ComponentSteps
<1> QED
  BY ComponentsInitially, <1>1, PTL
     DEF PlatformSpec, Spec, RefundsSpec, ConnectionsSpec, AdvertisingSpec,
         StaffSpec, SessionsSpec, BlackoutsSpec, NotificationsSpec,
         MessagingSpec

\* Every reachable state of the platform is well typed, in every component.
THEOREM PlatformTyped == PlatformSpec => []PlatformTypeOK
<1>1. StaffInv => StaffTypeOK
  BY DEF StaffInv
<1>2. SessionsInv => SessionsTypeOK
  BY DEF SessionsInv
<1>3. RangesInv => BlackoutsTypeOK
  BY DEF RangesInv
<1>4. AdsInv => AdvertisingTypeOK
  BY DEF AdsInv
<1>5. NoticesInv => NotificationsTypeOK
  BY DEF NoticesInv
<1>6. MessagesInv => MessagingTypeOK
  BY DEF MessagesInv
<1>7. /\ TypeOK /\ RefundsTypeOK /\ ConnectionsTypeOK /\ AdvertisingTypeOK
      /\ StaffTypeOK /\ SessionsTypeOK /\ BlackoutsTypeOK
      /\ NotificationsTypeOK /\ MessagingTypeOK
      => PlatformTypeOK
  BY DEF PlatformTypeOK
<1> QED
  BY <1>1, <1>2, <1>3, <1>4, <1>5, <1>6, <1>7, PlatformIsItsComponents,
     PaymentsTyped, RefundsTypes, ConnectionsTypes, StaffInvariant,
     SessionsInvariant, RangesInvariant, AdsInvariant, NoticesInvariant,
     MessagesInvariant, PTL

-----------------------------------------------------------------------------
(* Safety of the platform *)

\* What the runs `platform` and `stripe` check in every state of an instance,
\* by component.
MoneyIsSafe ==
    /\ CapacityFollowsStatus /\ OneActivePayment /\ SummaryFollowsPayment
    /\ BooksFollowStripe /\ ChargedOnlyIfAccepted
    /\ RefundedIsReserved /\ OneRefundPerKey /\ LedgerFollowsRefunds
    /\ RefundedMeansAll /\ RefundStatusIsEarned
ListingsAreSafe ==
    /\ ImportedRoomAccounted /\ FeedMirrored /\ PartnerWasTold
    /\ ShownIsPaid /\ SerialPeriodsDisjoint /\ ReminderWasSent
    /\ BlackoutsHold
UsersAreSafe ==
    CookieIsTheSession /\ MailedAgainOnlyAfterFault /\ ReadWasSeen

\* Money, in every reachable state of the platform: capacity, payments, Stripe,
\* ledger and refunds agree, and nothing is charged that was not accepted.
THEOREM PlatformMoneyIsSafe == PlatformSpec => []MoneyIsSafe
<1>1. PaymentsInv => CapacityFollowsStatus
  BY DEF PaymentsInv, BookingsInv
<1>2. /\ CapacityFollowsStatus /\ OneActivePayment /\ SummaryFollowsPayment
      /\ BooksFollowStripe /\ ChargedOnlyIfAccepted
      /\ RefundedIsReserved /\ OneRefundPerKey /\ LedgerFollowsRefunds
      /\ RefundedMeansAll /\ RefundStatusIsEarned
      => MoneyIsSafe
  BY DEF MoneyIsSafe
<1> QED
  BY <1>1, <1>2, PlatformIsItsComponents, PaymentsInvariant, OnePayment,
     SummaryAgrees, BooksAgree, ChargedIsAccepted, ReservationsAddUp,
     StripeRefundsOncePerKey, LedgerIsOfRefunds, RefundedIsAll,
     RefundStatusEarned, PTL

\* Listings: what is imported, advertised and blacked out is accounted for.
THEOREM PlatformListingsAreSafe == PlatformSpec => []ListingsAreSafe
<1>1. /\ ImportedRoomAccounted /\ FeedMirrored /\ PartnerWasTold
      /\ ShownIsPaid /\ SerialPeriodsDisjoint /\ ReminderWasSent
      /\ BlackoutsHold
      => ListingsAreSafe
  BY DEF ListingsAreSafe
<1> QED
  BY <1>1, PlatformIsItsComponents, RoomIsAccounted, FeedIsMirrored,
     PartnerKnows, ShownArePaid, PeriodsAreApart, RemindersAreSent,
     BlackoutsAreKept, PTL

\* Users: sessions, mails and read positions.
THEOREM PlatformUsersAreSafe == PlatformSpec => []UsersAreSafe
<1>1. CookieIsTheSession /\ MailedAgainOnlyAfterFault /\ ReadWasSeen
      => UsersAreSafe
  BY DEF UsersAreSafe
<1> QED
  BY <1>1, PlatformIsItsComponents, TheCookieWorks, MailsAgainOnlyAfterFault,
     ReadMessagesWereSeen, PTL

\* What never comes back, does not on the platform: a booking that has ended, a
\* link that is dead, a session that has ended, money that a refund has paid.
THEOREM PlatformDoesNotGoBack ==
    PlatformSpec =>
        /\ NeverReopened /\ DeadLinksStayDead /\ EndedSessionsStayEnded
        /\ ImplementsEscrow
BY PlatformIsItsComponents, EndedStaysEndedWhilePaid, DeadLinks,
   SessionsEndForGood, RefundsImplementEscrow, PTL
=============================================================================
