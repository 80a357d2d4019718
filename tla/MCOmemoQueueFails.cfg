\* Statements that do not hold: one is checked, the others take its place.
SPECIFICATION ReceiveSpec
CONSTANTS
    msg1 = msg1
    msg2 = msg2
    msg3 = msg3
    phone = phone
    desktop = desktop
    tablet = tablet
    contact = contact
    user = user
    fromPhone = fromPhone
    fromTablet = fromTablet
    hello = hello
    Messages = {msg1}
    Devices = {phone}
    Owner <- MCOwner
    Contact = contact
    NoBundle = {}
    Settled = FALSE
    Received = {fromPhone}
    From <- MCFrom
    Form <- MCForm
    HasFallback = {fromPhone}
PROPERTIES
    BlacklistedIsSentTo
\* INVARIANTS EncryptedIsSecure
\* INVARIANTS SecureWasDecrypted
\* INVARIANTS OpenedIsShown
\* PROPERTIES TransportMakesSession
