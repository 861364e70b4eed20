CONSTANT Inputs <- MCInputs
SPECIFICATION Spec
INVARIANTS CommandLands QueryFillsResult ReplySizeExact ParserStaysInFrame
