CONSTANTS
    Strings = {"server_address", "method"}
    Numbers = {"port"}
    Encoded = {"password"}
    Required = {"server_address", "port"}
SPECIFICATION Spec
INVARIANTS ShellInput
CHECK_DEADLOCK FALSE
