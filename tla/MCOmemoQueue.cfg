SPECIFICATION ReceiveSpec
CONSTANTS
    msg1 = msg1
    msg2 = msg2
    msg3 = msg3
    phone = phone
    desktop = desktop
    tablet = tablet
    contact = contact
    user = user
    fromPhone = fromPhone
    fromTablet = fromTablet
    hello = hello
    Messages = {msg1}
    Devices = {phone, desktop, tablet}
    Owner <- MCOwner
    Contact = contact
    NoBundle = {tablet}
    Settled = FALSE
    Received = {fromTablet, hello}
    From <- MCFrom
    Form <- MCForm
    HasFallback = {fromTablet}
INVARIANTS
    Accounted
    EncryptedForAll
    FreedWhenAllAnswered
    SecureIsOmemo
PROPERTIES
    DecryptedStays
