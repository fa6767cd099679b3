-------------------------- MODULE MCSubscriptions --------------------------
EXTENDS Subscriptions
MCMonthLength == <<3, 2, 3, 3, 3, 3, 3, 3>>
Spec == SubscriptionsInit /\ [][SubscriptionsNext]_subscriptionVars
=============================================================================
