\* Both chat providers and the webhook, one approval id, every property.
SPECIFICATION Spec
CONSTANTS
    Requests = {r1}
    Slack = slack
    Telegram = telegram
    Configured = {slack, telegram}
    Webhook = TRUE
    MaxUpdates = 2
INVARIANTS PendingExact ReleasedByStandingApproval ScreenShowsAcceptedAnswer
PROPERTIES NoAnswerAfterTheWait EveryRequestEnds ImplementsGate
