SPECIFICATION ReceiveFairSpec
CONSTANTS
    msg1 = msg1
    msg2 = msg2
    msg3 = msg3
    phone = phone
    desktop = desktop
    tablet = tablet
    contact = contact
    user = user
    fromPhone = fromPhone
    fromTablet = fromTablet
    hello = hello
    Messages = {msg1}
    Devices = {phone, desktop}
    Owner <- MCOwner
    Contact = contact
    NoBundle = {}
    Settled = TRUE
    Received = {}
    From <- MCFrom
    Form <- MCForm
    HasFallback = {}
CHECK_DEADLOCK FALSE
PROPERTIES
    QueuedIsSent
