----------------------- MODULE MCNotificationDelivery -----------------------
(* Values of NotificationDelivery's constants for TLC. *)
EXTENDS NotificationDelivery, TLC

CONSTANTS whatsapp, w1, w2

\* The message waits for quiet hours to end, unless it is written after that.
MCDeferUntil == whatsapp :> 3
=============================================================================
