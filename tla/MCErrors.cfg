CONSTANTS
    Processes = {"server", "client"}
    Outer = {"client"}
    Reasons = {"", "user missing"}
    NoReason = ""
    Messages <- MCMessages
    Metadata = {"none", "some"}
    NoMetadata = "none"
    HttpCodes = {200, 409, 418}
    GrpcCodes = {"OK", "AlreadyExists", "DataLoss"}
    MaxHeld = 3
SPECIFICATION ErrorSpec
INVARIANT NewReturns
CHECK_DEADLOCK FALSE
