---------------------------- MODULE MCStaticMain ----------------------------
(* A deployment with two adjacent subscriptions between publishers.        *)
EXTENDS StaticMain

MCKind == <<"publisher", "subscription", "subscription", "publisher">>

=============================================================================
