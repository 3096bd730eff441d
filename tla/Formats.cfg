SPECIFICATION Spec
CONSTANTS
    BodyLengths = {0, 1, 2, 3, 4, 5, 6, 7, 8, 9, 10, 11, 13, 14, 15, 16}
    TableLengths = {2, 3, 4, 8, 9, 11, 12, 13, 16, 19, 22, 29}
    LongLengths = {49}
    Runs = {0, 5, 120}
    PacketLengths = {0, 5, 9, 12, 188}
    MaxRecords = 2
    Lists = {0, 1, 3}
    Starts <- MCStarts
    MaxDays = 1461
    Codes <- MCCodes
    Characters <- MCCharacters
    MaxText = 2
    Payload = {0, 1, 3}
    MaxPayload = 5
    Sides = {16, 36}
    Wholes = {1, 2, 3, 5, 9}
    Remainders = {0, 187}
    Damages = {0, 4, 8}
    MaxStray = 2
INVARIANTS DatesAgree ComesBack NoOverrun ReadsBack
PROPERTY Terminates
CHECK_DEADLOCK FALSE
