SPECIFICATION Spec
CONSTANTS
    sender1 = sender1
    sender2 = sender2
    channel = channel
    Senders <- MCSenders
    Channels <- MCChannels
    Queues = {1, 2}
    MaxSeconds = 1
    MaxHooks = 2
    MaxRequests = 2
INVARIANTS  LimitsHoldBack
 
