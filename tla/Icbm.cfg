SPECIFICATION Spec
CONSTANTS
    Calls <- MCCalls
    Cookies <- MCCookies
    Senders <- MCSenders
    Noise <- MCNoise
    Extras <- MCExtras
INVARIANTS TypeOK SenderKnown Delivered CookiesForgotten UserinfoTold
