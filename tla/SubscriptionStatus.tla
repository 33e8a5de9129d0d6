------------------------- MODULE SubscriptionStatus -------------------------
(***************************************************************************)
(* The statuses of a subscription and the allow-list of transitions        *)
(* between them: subscriptions/subscription-state-machine.ts.              *)
(***************************************************************************)

\* The statuses of the Prisma enum SubscriptionStatus.
Statuses ==
    { "INCOMPLETE", "TRIALING", "ACTIVE", "PAST_DUE", "GRACE_PERIOD",
      "PAUSED", "CANCELED", "EXPIRED", "SUSPENDED" }

\* ALLOWED_TRANSITIONS: for each status the statuses it may move to.
AllowedTransitions ==
    [ INCOMPLETE   |-> {"TRIALING", "ACTIVE", "CANCELED"},
      TRIALING     |-> {"ACTIVE", "CANCELED", "EXPIRED", "SUSPENDED"},
      ACTIVE       |-> {"ACTIVE", "PAST_DUE", "PAUSED", "CANCELED", "SUSPENDED"},
      PAST_DUE     |-> {"ACTIVE", "GRACE_PERIOD", "CANCELED", "SUSPENDED"},
      GRACE_PERIOD |-> {"ACTIVE", "EXPIRED", "CANCELED", "SUSPENDED"},
      PAUSED       |-> {"ACTIVE", "CANCELED", "SUSPENDED"},
      CANCELED     |-> {"ACTIVE"},
      EXPIRED      |-> {},
      SUSPENDED    |-> {"ACTIVE", "CANCELED"} ]

\* isTransitionAllowed: of the self-transitions only ACTIVE -> ACTIVE counts.
IsTransitionAllowed(from, to) ==
    IF from = to THEN from = "ACTIVE" ELSE to \in AllowedTransitions[from]

=============================================================================
