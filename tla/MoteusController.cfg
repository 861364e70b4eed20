CONSTANTS MaxCalls = 2 Chunks = 2 PacketModulus = 3 MaxRetries = 1
          Boards = {"flow", "plain", "deaf"}
SPECIFICATION Spec
INVARIANTS StreamInOrder OwnOutput MoveDone
PROPERTY CallsEnd
