\* Deferring and retrying replays: four positions, the second not taking part.
CONSTANTS
    N = 4
    Thread = {t1, t2}
    x = x
    y = y
    Key = {x, y}
    MaxDefers = 1
    Schedules <- ActiveSchedules
    Reservations <- SomeReservations
    Active <- AllButSecond
    Retry = TRUE
SPECIFICATION FairSpec
INVARIANTS DeliveryOwed OneAttempt DeferralsRouted WorkNeverSleeps PendingExact ReplaysAhead
PROPERTY Termination
